---- MODULE Spec2Model ----
(***************************************************************************)
(* A model of the task scheduler of the `machines` package: the sorted     *)
(* TaskQueue, Task.safe_run and the Factory with its worker thread         *)
(* (src/machines/factory.py, src/machines/task.py, src/machines/target.py).*)
(***************************************************************************)
EXTENDS Integers, Sequences, FiniteSets, TLC

(***************************************************************************)
(* Bounds of the model.                                                    *)
(***************************************************************************)
\* number of Task objects created in the factory context
NTasks == 3
\* number of API calls the main thread makes
MaxOps == 3
\* number of API calls the main thread makes when it ends with stop()
StopOps == 4
\* number of add_task calls of the main thread beside a second thread
TwoOps == 2
\* number of add_task calls a second thread makes
OtherOps == 1
\* number of WorkThread objects a run may create
MaxWorkers == 2
\* number of queue items of the stand-alone TaskQueue runs
NItems == 24
\* length of the stand-alone TaskQueue
MaxQueue == 2

(***************************************************************************)
(* Index and Branch (target.py, IdBase).  An identifier is the tuple of    *)
(* its atoms, the empty tuple standing for the null identifier; atoms are  *)
(* positive numbers ordered as the strings they stand for, and 0 stands    *)
(* for the fill value "" of zip_longest, smaller than every atom.          *)
(***************************************************************************)
FillValue == 0

AtomAt(a, i) == IF i <= Len(a) THEN a[i] ELSE FillValue

MaxOf(m, n) == IF m >= n THEN m ELSE n

\* positions at which the zipped atoms differ
DiffAt(a, b) == {i \in 1..MaxOf(Len(a), Len(b)) : AtomAt(a, i) # AtomAt(b, i)}

FirstDiff(a, b) == CHOOSE i \in DiffAt(a, b) : \A j \in DiffAt(a, b) : i <= j

\* a variant of IdBase.__gt__ that reads none_is_greater the wrong way round
IdGtFlipped(a, b, none_is_greater) ==
    IF a = b THEN FALSE
    ELSE IF b = <<>> THEN none_is_greater
    ELSE IF a = <<>> THEN ~none_is_greater
    ELSE IF DiffAt(a, b) = {} THEN FALSE
    ELSE AtomAt(a, FirstDiff(a, b)) > AtomAt(b, FirstDiff(a, b))

\* IdBase.__gt__ with the class attribute none_is_greater
IdGt(a, b, none_is_greater) ==
    IF a = b THEN FALSE
    ELSE IF b = <<>> THEN ~none_is_greater
    ELSE IF a = <<>> THEN none_is_greater
    ELSE IF DiffAt(a, b) = {} THEN FALSE
    ELSE AtomAt(a, FirstDiff(a, b)) > AtomAt(b, FirstDiff(a, b))

\* __lt__ as functools.total_ordering derives it from __gt__ and __ne__
IdLt(a, b, none_is_greater) == ~IdGt(a, b, none_is_greater) /\ a # b

\* Index.none_is_greater (inherited from IdBase) and Branch.none_is_greater
IndexNoneIsGreater == TRUE
BranchNoneIsGreater == FALSE

(***************************************************************************)
(* The tasks.  A task is known by its number; its machine name, index and  *)
(* branch are read off tables so that the items 1..NItems go through every *)
(* combination of the listed indices, branches and names.                  *)
(***************************************************************************)
IndexTable == << <<2>>, <<1>>, <<>>, <<1, 1>> >>
BranchTable == << <<>>, <<1>>, <<2>> >>
NameTable == << "A", "B" >>

TaskIndex(t) == IndexTable[((t - 1) % Len(IndexTable)) + 1]
TaskBranch(t) == BranchTable[(((t - 1) \div Len(IndexTable)) % Len(BranchTable)) + 1]
TaskName(t) ==
    NameTable[(((t - 1) \div (Len(IndexTable) * Len(BranchTable))) % Len(NameTable)) + 1]

\* utils.indices_as_key
indices_as_key(t) == <<TaskIndex(t), TaskBranch(t)>>

\* comparison of two sort keys, as tuple comparison does it: the first
\* component that differs decides
KeyLt(k1, k2) ==
    IF k1[1] # k2[1] THEN IdLt(k1[1], k2[1], IndexNoneIsGreater)
    ELSE IF k1[2] # k2[2] THEN IdLt(k1[2], k2[2], BranchNoneIsGreater)
    ELSE FALSE

(***************************************************************************)
(* TaskQueue (factory.py): a list kept sorted by a stable sort on the key. *)
(***************************************************************************)
InSeq(x, s) == \E i \in 1..Len(s) : s[i] = x

\* insert x behind every element that is not greater than x
RECURSIVE InsertStable(_, _)
InsertStable(s, x) ==
    IF s = <<>> THEN <<x>>
    ELSE IF KeyLt(indices_as_key(x), indices_as_key(Head(s))) THEN <<x>> \o s
    ELSE <<Head(s)>> \o InsertStable(Tail(s), x)

\* list.sort(key=...): a stable insertion sort
RECURSIVE SortByKey(_)
SortByKey(s) ==
    IF s = <<>> THEN <<>>
    ELSE InsertStable(SortByKey(SubSeq(s, 1, Len(s) - 1)), s[Len(s)])

\* TaskQueue.put, for a task that is not in the list
QueuePut(q, t) == SortByKey(Append(q, t))

\* TaskQueue.get: the task returned (0 for None) and the list left
QueueFront(q) == IF q = <<>> THEN 0 ELSE q[1]
QueueRest(q) == IF q = <<>> THEN <<>> ELSE Tail(q)

(***************************************************************************)
(* The factory, its tasks and its threads.                                 *)
(***************************************************************************)
Tasks == 1..NTasks

None == <<>>

Client(i) == <<"client", i>>
Worker(i) == <<"worker", i>>
Main == Client(1)
Other == Client(2)
Clients == {Main, Other}
Workers == {Worker(i) : i \in 1..MaxWorkers}
Threads == Clients \cup Workers

\* write modes of Task.run / Storage.write
Modes == {"none", "overwrite"}

\* outcomes of a machine function: it returns, raises RejectException, or
\* raises another exception
Outcomes == {"ok", "reject", "error"}

\* Targets are numbered: target t is the output of task t, target 0 is an
\* input that no task produces.  Task 1 has no input, task 2 reads the
\* output of task 1, every other task reads target 0; every fourth task is
\* of a machine without output.
TaskInputs(t) == IF t = 1 THEN {} ELSE IF t = 2 THEN {1} ELSE {0}
HasOutput(t) == t % 4 # 0
TaskOutput(t) == t

\* targets that may be in the storage before the first task is added
InitTargets == {1, 2}

\* what the user's callbacks do: nothing, or call run() on task 1 from the
\* per-task callback of a PENDING task, or from the factory callback
Callbacks == {"none", "task", "factory"}
CallbackTask == CHOOSE t \in Tasks : \A u \in Tasks : t <= u

VARIABLES
    status,         \* Task.status
    runs,           \* number of invocations of the task's machine function
    mode,           \* Task.mode
    store,          \* targets that exist in the main storage
    queue,          \* Factory.queue._tasks
    tasklist,       \* Factory._tasklist
    stop_flag,      \* Factory._stop_flag
    stop_on_error,  \* Factory.stop_on_error
    nosession,      \* Factory.nosession
    cbs,            \* behaviour of the user's callbacks
    lock,           \* owner of Factory.lock
    thread,         \* Factory._thread
    nworkers,       \* WorkThread objects created so far
    wpc,            \* position of each WorkThread in run()
    wcur,           \* local `task` of run()
    wst,            \* local `status` of run()
    wpend,          \* local `pending` of run()
    wupd,           \* local `updated` of run()
    wsum,           \* local `summary` of run()
    cpc,            \* position of each client thread
    cops,           \* API calls each client thread has still to make
    call,           \* add_task call in progress on each thread
    arrival,        \* history: queued tasks in the order they were put
    got,            \* history: what the last call of the stand-alone TaskQueue returned
    stopped         \* history: what the worker was at when stop() was called

VARIABLES
    memory,             \* TargetStorage.memory: the value of each stored target
    target_lock,        \* TargetStorage.target_lock
    temporary,          \* TargetStorage.temporary
    comparators,        \* names that TargetStorage.comparators has an entry for
    on_write,           \* number of calls of the on_write callback
    raised,             \* exception the last storage or graph call ended with
    summary,            \* the tasks handed to TargetStorage.cleanup
    last,               \* history: the last storage call and the memory before it
    requires,           \* Machine.requires of the task's machine
    run_fallback,       \* Task._fallback
    inputs,             \* Machine.inputs: the alternatives of each input name
    id_branch,          \* branch of the task's input identifier
    task_mode,          \* Task.mode of the task
    available_inputs,   \* Task.available_inputs
    task_status,        \* Task.status of the task
    graph,              \* DependencyGraph.run: its position and its locals
    invalid,            \* targets that the main storage rejects in check()
    aggregate,          \* Task.aggregate
    message,            \* Task.message: None or the text of the exception
    error,              \* Task.error
    on_read,            \* what the on_read callback of the storage raises for a target
    slock,              \* owner of TargetStorage.lock
    users,              \* position of each thread that calls the storage, and what its calls raised
    dry,                \* the factory is a DryFactory
    program,            \* the program of the toolbox: a metamachine or one machine
    memory2,            \* memory of the storage of a second session
    history,            \* the history dictionary of Session.run: output -> serialised tasks
    statuses,           \* Task.status of the tasks of Session.run and of Session.replay
    path,               \* the directory of a target in a FileDB: whether it exists, its files
    tempdir,            \* the temporary directory of FileDB.__setitem__
    setitem,            \* FileDB.__setitem__: its position and its arguments
    conv,               \* the TargetConverter: its templates and its pinned name and branch
    conv_target,        \* the Target handed to TargetConverter.to_path
    conv_path,          \* what to_path returned or raised
    conv_back,          \* what from_path returned or raised for that path
    id_values,          \* IdBase._values of an Index or a Branch
    id_cropped,         \* the argument and the result of the last IdBase.crop
    apply_ids,          \* the identifiers handed to Machine.apply
    apply_tasks         \* the arguments and the tasks of the last Machine.apply

taskvars == <<status, runs, mode, store>>
factvars == <<queue, tasklist, stop_flag, stop_on_error, nosession, cbs, lock, thread,
              nworkers>>
workvars == <<wpc, wcur, wst, wpend, wupd, wsum>>
clientvars == <<cpc, cops, call>>
histvars == <<arrival, got, stopped>>
storvars == <<memory, target_lock, temporary, comparators, on_write, raised, summary,
              last>>
resvars == <<requires, run_fallback, inputs, id_branch, task_mode, available_inputs,
             task_status>>
sessvars == <<program, memory2, history, statuses>>
filevars == <<path, tempdir, setitem>>
algvars == <<conv, conv_target, conv_path, conv_back, id_values, id_cropped,
            apply_ids, apply_tasks>>
extvars == <<invalid, aggregate, message, error, on_read, slock, users,
            dry, sessvars, filevars, algvars>>
datavars == <<storvars, resvars, graph, extvars>>
vars == <<taskvars, factvars, workvars, clientvars, histvars, datavars>>

NoCall == [pc |-> "none", task |-> 0]

\* DependencyGraph.run has not been called
NoGraph == [pc |-> "idle", mode |-> "none", all |-> FALSE, remaining |-> <<>>,
            run |-> <<>>, task |-> 0, unmet |-> {}, existed |-> FALSE,
            fresh |-> {}]

\* no session is run
NoSession ==
    /\ program = "none"
    /\ memory2 = <<>>
    /\ history = <<>>
    /\ statuses = <<>>

\* a directory that does not exist
NoDir == [exists |-> FALSE, files |-> <<>>]

\* no file is written
NoFile ==
    /\ path = NoDir
    /\ tempdir = NoDir
    /\ setitem = [pc |-> "idle"]

\* no converter, no identifier and no expansion is modelled
NoAlg ==
    /\ conv = None
    /\ conv_target = None
    /\ conv_path = None
    /\ conv_back = None
    /\ id_values = <<>>
    /\ id_cropped = None
    /\ apply_ids = <<>>
    /\ apply_tasks = None

\* every target is valid, the task has not been executed
NoExt ==
    /\ NoSession
    /\ NoFile
    /\ NoAlg
    /\ invalid = {}
    /\ aggregate = FALSE
    /\ message = None
    /\ error = None
    /\ on_read = <<>>
    /\ slock = None
    /\ users = <<>>
    /\ dry = FALSE

\* no storage call and no input resolution is modelled: one empty storage, a
\* task of a machine without inputs
NoData ==
    /\ memory = <<>>
    /\ target_lock = {}
    /\ temporary = FALSE
    /\ comparators = {}
    /\ on_write = 0
    /\ raised = "none"
    /\ summary = <<>>
    /\ last = <<>>
    /\ requires = "all"
    /\ run_fallback = TRUE
    /\ inputs = <<>>
    /\ id_branch = <<>>
    /\ task_mode = "none"
    /\ available_inputs = <<>>
    /\ task_status = "NEW"
    /\ graph = NoGraph
    /\ NoExt

InitCommon ==
    /\ status = [t \in Tasks |-> "NEW"]
    /\ runs = [t \in Tasks |-> 0]
    /\ mode = [t \in Tasks |-> "none"]
    /\ queue = <<>>
    /\ tasklist = <<>>
    /\ stop_flag = FALSE
    /\ lock = None
    /\ thread = None
    /\ nworkers = 0
    /\ wpc = [w \in Workers |-> "unborn"]
    /\ wcur = [w \in Workers |-> 0]
    /\ wst = [w \in Workers |-> "NEW"]
    /\ wpend = [w \in Workers |-> {}]
    /\ wupd = [w \in Workers |-> FALSE]
    /\ wsum = [w \in Workers |-> <<>>]
    /\ cpc = [c \in Clients |-> "idle"]
    /\ call = [thr \in Threads |-> NoCall]
    /\ arrival = <<>>
    /\ got = 0
    /\ stopped = {}

(***************************************************************************)
(* Helpers on the factory state.                                           *)
(***************************************************************************)
\* Thread.is_alive: from start() until run() has returned or raised and the
\* thread has been torn down
Alive(w) == wpc[w] \notin {"unborn", "dead", "crashed"}

\* Factory.serving
serving == thread # None /\ Alive(thread)

\* Factory.stopping
stopping == stop_flag

\* Task.complete
complete(t) == HasOutput(t) /\ TaskOutput(t) \in store

\* Task.ready, for a machine with requires = "all"
ready(t) == \A i \in TaskInputs(t) : i \in store

\* where a worker thread goes on when the add_task it called has returned
Resume(w) == IF wpc[w] = "tcb" THEN "after" ELSE "callback_end"

\* return from add_task on thread thr
Return(thr) ==
    /\ call' = [call EXCEPT ![thr] = NoCall]
    /\ IF thr \in Clients
       THEN /\ cpc' = [cpc EXCEPT ![thr] = "idle"]
            /\ wpc' = wpc
       ELSE /\ wpc' = [wpc EXCEPT ![thr] = Resume(thr)]
            /\ cpc' = cpc

(***************************************************************************)
(* Task.run and Factory.add_task, on a client thread or, within a          *)
(* callback, on a worker thread.                                           *)
(***************************************************************************)
\* Task.run up to the call of add_task: a client thread sets the mode
RunBegin(c, t, m) ==
    /\ cpc[c] = "idle"
    /\ cops[c] > 0
    /\ cops' = [cops EXCEPT ![c] = @ - 1]
    /\ cpc' = [cpc EXCEPT ![c] = "add"]
    /\ mode' = [mode EXCEPT ![t] = m]
    /\ call' = [call EXCEPT ![c] = [pc |-> "put", task |-> t]]
    /\ stopped' = {}
    /\ UNCHANGED <<status, runs, store, factvars, datavars, workvars, arrival, got>>

\* the check `task in self._tasks` of TaskQueue.put
Duplicate(t) == InSeq(t, queue)

\* add_task: `with self.lock: self.queue.put(task)`, Duplicate swallowed,
\* else the task is appended to the task list
AddPut(thr) ==
    /\ call[thr].pc = "put"
    /\ lock = None
    /\ IF Duplicate(call[thr].task)
       THEN UNCHANGED <<queue, tasklist>>
       ELSE /\ queue' = QueuePut(queue, call[thr].task)
            /\ tasklist' = Append(tasklist, call[thr].task)
    /\ call' = [call EXCEPT ![thr].pc = "reset"]
    /\ UNCHANGED <<taskvars, stop_flag, stop_on_error, nosession, cbs, datavars, lock, thread,
                   nworkers, workvars, cpc, cops, histvars>>

\* serve: self._stop_flag = False
ServeReset(thr) ==
    /\ call[thr].pc = "reset"
    /\ stop_flag' = FALSE
    /\ call' = [call EXCEPT ![thr].pc = "check"]
    /\ UNCHANGED <<taskvars, queue, tasklist, stop_on_error, nosession, cbs, datavars, lock,
                   thread, nworkers, workvars, cpc, cops, histvars>>

\* serve: `if self.serving(): return`
ServeCheck(thr) ==
    /\ call[thr].pc = "check"
    /\ IF serving
       THEN Return(thr)
       ELSE /\ call' = [call EXCEPT ![thr].pc = "start"]
            /\ UNCHANGED <<wpc, cpc>>
    /\ UNCHANGED <<taskvars, factvars, datavars, wcur, wst, wpend, wupd, wsum, cops, histvars>>

\* serve: self._thread = self.WorkThread(self); self._thread.start()
ServeStart(thr) ==
    /\ call[thr].pc = "start"
    /\ nworkers < MaxWorkers
    /\ nworkers' = nworkers + 1
    /\ thread' = Worker(nworkers + 1)
    /\ call' = [call EXCEPT ![thr] = NoCall]
    /\ IF thr \in Clients
       THEN /\ cpc' = [cpc EXCEPT ![thr] = "idle"]
            /\ wpc' = [wpc EXCEPT ![Worker(nworkers + 1)] = "get"]
       ELSE /\ wpc' = [wpc EXCEPT ![thr] = Resume(thr),
                                  ![Worker(nworkers + 1)] = "get"]
            /\ cpc' = cpc
    /\ UNCHANGED <<taskvars, queue, tasklist, stop_flag, stop_on_error, nosession, cbs, datavars,
                   lock, wcur, wst, wpend, wupd, wsum, cops, histvars>>

\* what a worker that is executing a task is at: the task, and the tasks
\* that no worker has started
Executing ==
    {[worker |-> w, task |-> wcur[w], new |-> {t \in Tasks : status[t] = "NEW"}] :
        w \in {x \in Workers : wpc[x] = "run"}}

\* Factory.stop
Stop(c) ==
    /\ cpc[c] = "idle"
    /\ cops[c] > 0
    /\ cops' = [cops EXCEPT ![c] = @ - 1]
    /\ stop_flag' = TRUE
    /\ stopped' = Executing
    /\ UNCHANGED <<taskvars, queue, tasklist, stop_on_error, nosession, cbs, datavars, lock,
                   thread, nworkers, workvars, cpc, call, arrival, got>>

\* Factory.hold: return at once when not serving, else join the worker
HoldBegin(c) ==
    /\ cpc[c] = "idle"
    /\ cops[c] > 0
    /\ cops' = [cops EXCEPT ![c] = @ - 1]
    /\ cpc' = [cpc EXCEPT ![c] = IF serving THEN "hold" ELSE "held"]
    /\ UNCHANGED <<taskvars, factvars, datavars, workvars, call, histvars>>

\* Factory.hold: the loop ends when serving() is false
HoldEnd(c) ==
    /\ cpc[c] = "hold"
    /\ ~serving
    /\ cpc' = [cpc EXCEPT ![c] = "held"]
    /\ UNCHANGED <<taskvars, factvars, datavars, workvars, cops, call, histvars>>

\* the caller goes on after hold() has returned
HoldReturn(c) ==
    /\ cpc[c] = "held"
    /\ cpc' = [cpc EXCEPT ![c] = "idle"]
    /\ UNCHANGED <<taskvars, factvars, datavars, workvars, cops, call, histvars>>

(***************************************************************************)
(* Task.safe_run, called by the worker thread.                             *)
(***************************************************************************)
\* the guard of safe_run: only a NEW or PENDING task is run
Runnable(t) == status[t] \in {"NEW", "PENDING"}

\* a variant of safe_run without the test for an existing output
SkipTestNever(t) == FALSE

\* the test `self.complete() and not self.mode`
SkipTest(t) == complete(t) /\ mode[t] = "none"

\* Storage.write of the task's output: TRUE when it raises TargetIsLocked
\* (the target exists and its name is locked) or TargetAlreadyExists (the
\* target exists and no mode is given)
WriteFails(t) ==
    /\ HasOutput(t)
    /\ TaskOutput(t) \in store
    /\ (TaskOutput(t) \in target_lock \/ mode[t] = "none")

\* the status safe_run ends with when the function has ended with outcome r
EndStatus(t, r) ==
    IF r = "reject" THEN "REJECTED"
    ELSE IF r = "error" THEN "ERROR"
    ELSE IF WriteFails(t) THEN "ERROR"
    ELSE "SUCCESS"

\* Task.lock is held by a worker that is in a callback of the task
TaskLocked(t) == \E w \in Workers : wcur[w] = t /\ wpc[w] = "tcb"

\* the locals of run() are gone when the thread has ended
Forget(w) ==
    /\ wcur' = [wcur EXCEPT ![w] = 0]
    /\ wst' = [wst EXCEPT ![w] = "NEW"]
    /\ wpend' = [wpend EXCEPT ![w] = {}]
    /\ wupd' = [wupd EXCEPT ![w] = FALSE]
    /\ wsum' = [wsum EXCEPT ![w] = <<>>]

\* WorkThread.run: task = self.factory.queue.get(), break when it is None
WGet(w) ==
    /\ wpc[w] = "get"
    /\ queue' = QueueRest(queue)
    /\ wcur' = [wcur EXCEPT ![w] = QueueFront(queue)]
    /\ wpc' = [wpc EXCEPT ![w] = IF QueueFront(queue) = 0 THEN "lockwait" ELSE "saferun"]
    /\ UNCHANGED <<taskvars, tasklist, stop_flag, stop_on_error, nosession, cbs, datavars, lock,
                   thread, nworkers, wst, wpend, wupd, wsum, clientvars, histvars>>

\* safe_run: RuntimeError for a task that is neither NEW nor PENDING; nothing
\* in run() catches it, so the thread ends
WSafeRun(w) ==
    /\ wpc[w] = "saferun"
    /\ IF Runnable(wcur[w])
       THEN /\ wpc' = [wpc EXCEPT ![w] = "decide"]
            /\ UNCHANGED <<wcur, wst, wpend, wupd, wsum>>
       ELSE /\ wpc' = [wpc EXCEPT ![w] = "crashed"]
            /\ Forget(w)
    /\ UNCHANGED <<taskvars, factvars, datavars, clientvars, histvars>>

\* safe_run under the task lock: SKIPPED, PENDING or RUNNING, each followed
\* by the task's callbacks; the user's callback of a PENDING task may call
\* run() on another task
WDecide(w) ==
    LET t == wcur[w]
        st == IF SkipTest(t) THEN "SKIPPED"
              ELSE IF ~ready(t) THEN "PENDING" ELSE "RUNNING"
        calls == st = "PENDING" /\ cbs = "task"
    IN  /\ wpc[w] = "decide"
        /\ ~TaskLocked(t)
        /\ status' = [status EXCEPT ![t] = st]
        /\ wst' = [wst EXCEPT ![w] = st]
        /\ wpc' = [wpc EXCEPT ![w] = IF st = "RUNNING" THEN "run"
                                      ELSE IF calls THEN "tcb" ELSE "after"]
        /\ call' = IF calls
                   THEN [call EXCEPT ![w] = [pc |-> "put", task |-> CallbackTask]]
                   ELSE call
        /\ mode' = IF calls THEN [mode EXCEPT ![CallbackTask] = "none"] ELSE mode
        /\ UNCHANGED <<runs, store, factvars, datavars, wcur, wpend, wupd, wsum, cpc, cops,
                       histvars>>

\* safe_run past RUNNING: the function is invoked and ends with outcome r,
\* the output is written, the final status is set
WExec(w, r) ==
    LET t == wcur[w]
        st == EndStatus(t, r)
    IN  /\ wpc[w] = "run"
        /\ runs' = [runs EXCEPT ![t] = @ + 1]
        /\ store' = IF st = "SUCCESS" /\ HasOutput(t)
                    THEN store \cup {TaskOutput(t)} ELSE store
        /\ status' = [status EXCEPT ![t] = st]
        /\ wst' = [wst EXCEPT ![w] = st]
        /\ wpc' = [wpc EXCEPT ![w] = "after"]
        /\ UNCHANGED <<mode, factvars, datavars, wcur, wpend, wupd, wsum, clientvars, histvars>>

(***************************************************************************)
(* WorkThread.run after safe_run has returned.                             *)
(***************************************************************************)
\* the test that makes an ERROR raise the stop flag
StopOnError(st) == stop_on_error /\ st = "ERROR"

\* a variant of `updated` that no status sets
UpdatedNever(upd, st) == upd

\* `updated = updated or (status == Status.SUCCESS)`
Updated(upd, st) == upd \/ st = "SUCCESS"

\* run(): stop on error, `updated`, `pending` and `summary`
WAfter(w) ==
    /\ wpc[w] = "after"
    /\ stop_flag' = IF StopOnError(wst[w]) THEN TRUE ELSE stop_flag
    /\ wupd' = [wupd EXCEPT ![w] = Updated(@, wst[w])]
    /\ IF wst[w] = "PENDING"
       THEN /\ wpend' = [wpend EXCEPT ![w] = @ \cup {wcur[w]}]
            /\ wsum' = wsum
       ELSE /\ wsum' = [wsum EXCEPT ![w] = Append(@, wcur[w])]
            /\ wpend' = wpend
    /\ wpc' = [wpc EXCEPT ![w] = "chkstop"]
    /\ UNCHANGED <<taskvars, queue, tasklist, stop_on_error, nosession, cbs, datavars, lock,
                   thread, nworkers, wcur, wst, clientvars, histvars>>

\* the test `if self.factory.stopping(): break` of the inner loop
BreakTest == stopping

\* run(): leave the inner loop when the stop flag is up, else sleep and loop
WChkStop(w) ==
    /\ wpc[w] = "chkstop"
    /\ wpc' = [wpc EXCEPT ![w] = IF BreakTest THEN "lockwait" ELSE "get"]
    /\ UNCHANGED <<taskvars, factvars, datavars, wcur, wst, wpend, wupd, wsum, clientvars,
                   histvars>>

\* the orders in which a set may be iterated
Orders(S) ==
    {s \in [1..Cardinality(S) -> S] : \A i, j \in 1..Cardinality(S) : s[i] = s[j] => i = j}

\* `for task in pending: self.factory.queue.put(task)`: the queue after the
\* puts of seq, up to the first task that is already in the queue
RECURSIVE Requeue(_, _)
Requeue(q, seq) ==
    IF seq = <<>> \/ InSeq(Head(seq), q) THEN q
    ELSE Requeue(QueuePut(q, Head(seq)), Tail(seq))

\* run(): under the factory lock the pending tasks are put back (Duplicate is
\* not caught: the thread ends and the lock is released); then the outer loop
\* is left when the stop flag is up or no task succeeded, else continued
WLock(w) ==
    /\ wpc[w] = "lockwait"
    /\ lock = None
    /\ \E seq \in Orders(wpend[w]) : queue' = Requeue(queue, seq)
    /\ IF \E t \in wpend[w] : InSeq(t, queue)
       THEN /\ wpc' = [wpc EXCEPT ![w] = "crashed"]
            /\ Forget(w)
            /\ lock' = lock
       ELSE IF ~stopping /\ wupd[w]
       THEN /\ wpc' = [wpc EXCEPT ![w] = "get"]
            /\ wpend' = [wpend EXCEPT ![w] = {}]
            /\ wupd' = [wupd EXCEPT ![w] = FALSE]
            /\ lock' = lock
            /\ UNCHANGED <<wcur, wst, wsum>>
       ELSE /\ wpc' = [wpc EXCEPT ![w] = "callback"]
            /\ lock' = w
            /\ UNCHANGED <<wcur, wst, wpend, wupd, wsum>>
    /\ UNCHANGED <<taskvars, tasklist, stop_flag, stop_on_error, nosession, cbs, datavars, thread,
                   nworkers, clientvars, histvars>>

\* Factory.callback, under the factory lock: the user's callback, which may
\* call run() on a task, then reset_queue when nosession is set (no temporary
\* storage is configured, so cleanup changes nothing); then run() returns and
\* the lock is released
WCallback(w) ==
    /\ wpc[w] \in {"callback", "callback_end"}
    /\ IF wpc[w] = "callback" /\ cbs = "factory"
       THEN /\ wpc' = [wpc EXCEPT ![w] = "fcb"]
            /\ call' = [call EXCEPT ![w] = [pc |-> "put", task |-> CallbackTask]]
            /\ mode' = [mode EXCEPT ![CallbackTask] = "none"]
            /\ UNCHANGED <<queue, lock>>
       ELSE /\ wpc' = [wpc EXCEPT ![w] = "exiting"]
            /\ queue' = IF nosession THEN <<>> ELSE queue
            /\ lock' = None
            /\ UNCHANGED <<call, mode>>
    /\ UNCHANGED <<status, runs, store, tasklist, stop_flag, stop_on_error, nosession,
                   cbs, thread, nworkers, wcur, wst, wpend, wupd, wsum, cpc, cops,
                   histvars, datavars>>

\* the thread is torn down: is_alive() becomes false
WExit(w) ==
    /\ wpc[w] = "exiting"
    /\ wpc' = [wpc EXCEPT ![w] = "dead"]
    /\ Forget(w)
    /\ UNCHANGED <<taskvars, factvars, datavars, clientvars, histvars>>

(***************************************************************************)
(* The factory with its client threads and worker threads.                 *)
(***************************************************************************)
\* the steps of the worker threads
WorkerNext ==
    \/ \E w \in Workers : WGet(w)
    \/ \E w \in Workers : WSafeRun(w)
    \/ \E w \in Workers : WDecide(w)
    \/ \E w \in Workers, r \in Outcomes : WExec(w, r)
    \/ \E w \in Workers : WAfter(w)
    \/ \E w \in Workers : WChkStop(w)
    \/ \E w \in Workers : WLock(w)
    \/ \E w \in Workers : WCallback(w)
    \/ \E w \in Workers : WExit(w)

\* the steps of add_task on the threads T
AddNext(T) ==
    \/ \E thr \in T : AddPut(thr)
    \/ \E thr \in T : ServeReset(thr)
    \/ \E thr \in T : ServeCheck(thr)
    \/ \E thr \in T : ServeStart(thr)

\* one thread uses the factory: it runs tasks, stops and holds in any order;
\* the user's callbacks add no task
Init ==
    /\ InitCommon
    /\ NoData
    /\ store \in SUBSET InitTargets
    /\ stop_on_error \in BOOLEAN
    /\ nosession \in BOOLEAN
    /\ cbs = "none"
    /\ cops = [c \in Clients |-> IF c = Main THEN MaxOps ELSE 0]

Next ==
    \/ \E t \in Tasks, m \in Modes : RunBegin(Main, t, m)
    \/ Stop(Main)
    \/ HoldBegin(Main)
    \/ HoldEnd(Main)
    \/ HoldReturn(Main)
    \/ AddNext({Main})
    \/ WorkerNext

Spec == Init /\ [][Next]_vars

(***************************************************************************)
(* The TaskQueue on its own: any task is put, the first task is taken.     *)
(***************************************************************************)
Items == 1..NItems

InitQueue ==
    /\ InitCommon
    /\ NoData
    /\ store = {}
    /\ stop_on_error = FALSE
    /\ nosession = FALSE
    /\ cbs = "none"
    /\ cops = [c \in Clients |-> 0]

\* s without its element x
Without(s, x) == SelectSeq(s, LAMBDA y : y # x)

\* TaskQueue.put of a task that is not in the queue
QPut(t) ==
    /\ ~InSeq(t, queue)
    /\ Len(queue) < MaxQueue
    /\ queue' = QueuePut(queue, t)
    /\ arrival' = Append(arrival, t)
    /\ got' = 0
    /\ UNCHANGED <<taskvars, tasklist, stop_flag, stop_on_error, nosession, cbs, datavars, lock,
                   thread, nworkers, workvars, clientvars, stopped>>

\* TaskQueue.get
QGet ==
    /\ got' = QueueFront(queue)
    /\ queue' = QueueRest(queue)
    /\ arrival' = Without(arrival, QueueFront(queue))
    /\ UNCHANGED <<taskvars, tasklist, stop_flag, stop_on_error, nosession, cbs, datavars, lock,
                   thread, nworkers, workvars, clientvars, stopped>>

NextQueue ==
    \/ \E t \in Items : QPut(t)
    \/ QGet

SpecQueue == InitQueue /\ [][NextQueue]_vars

(***************************************************************************)
(* C9: TaskQueue.get removes and returns a task whose (index, branch) key  *)
(* is smallest among the queued tasks: the index is compared first, an     *)
(* empty index coming after every non-empty one, then the branch, an empty *)
(* branch coming before every non-empty one; the name plays no part, and   *)
(* of tasks with equal keys the one put first is returned.                 *)
(***************************************************************************)
\* a comes before b in the lexicographic order of the atoms
LexLess(a, b) ==
    \E i \in 1..Len(b) :
        /\ \A j \in 1..(i - 1) : j <= Len(a) /\ a[j] = b[j]
        /\ (i > Len(a) \/ a[i] < b[i])

IndexBefore(a, b) == a # b /\ (b = <<>> \/ (a # <<>> /\ LexLess(a, b)))
BranchBefore(a, b) == a # b /\ (a = <<>> \/ (b # <<>> /\ LexLess(a, b)))

\* task t is to be returned before task u
KeyBefore(t, u) ==
    \/ IndexBefore(TaskIndex(t), TaskIndex(u))
    \/ TaskIndex(t) = TaskIndex(u) /\ BranchBefore(TaskBranch(t), TaskBranch(u))

SameKey(t, u) == TaskIndex(t) = TaskIndex(u) /\ TaskBranch(t) = TaskBranch(u)

PutBefore(t, u) ==
    \E i, j \in 1..Len(arrival) : i < j /\ arrival[i] = t /\ arrival[j] = u

C9_GetSmallest ==
    [][Len(queue') < Len(queue) =>
        /\ InSeq(got', queue)
        /\ queue' = Without(queue, got')
        /\ \A i \in 1..Len(queue) :
            /\ ~KeyBefore(queue[i], got')
            /\ (SameKey(queue[i], got') /\ queue[i] # got') => PutBefore(got', queue[i])
      ]_vars

\* get has returned a task and has left behind a task of another name with
\* the same key, and a task with an empty index
C9_Witness ==
    /\ got # 0
    /\ \E i \in 1..Len(queue) :
        SameKey(queue[i], got) /\ TaskName(queue[i]) # TaskName(got)
    /\ \E i \in 1..Len(queue) : TaskIndex(queue[i]) = <<>>
    /\ TaskBranch(got) # <<>>

(***************************************************************************)
(* One thread adds tasks, each once, and holds; stop() is never called and *)
(* stop_on_error is unset.                                                 *)
(***************************************************************************)
InitOnce ==
    /\ InitCommon
    /\ NoData
    /\ store \in SUBSET InitTargets
    /\ stop_on_error = FALSE
    /\ nosession \in BOOLEAN
    /\ cbs = "none"
    /\ cops = [c \in Clients |-> IF c = Main THEN NTasks + 1 ELSE 0]

\* Task.run on a task that has not been added before
RunOnce(c, t, m) ==
    /\ ~InSeq(t, tasklist)
    /\ RunBegin(c, t, m)

NextOnce ==
    \/ \E t \in Tasks, m \in Modes : RunOnce(Main, t, m)
    \/ HoldBegin(Main)
    \/ HoldEnd(Main)
    \/ HoldReturn(Main)
    \/ AddNext({Main})
    \/ WorkerNext

SpecOnce == InitOnce /\ [][NextOnce]_vars

\* the tasks add_task has accepted
Added == {tasklist[i] : i \in 1..Len(tasklist)}

\* run() of the factory's last worker thread has returned from the callback
WorkerExited == thread # None /\ wpc[thread] \in {"exiting", "dead"}

\* the tasks whose inputs no task produces and no storage holds
Starved == {t \in Tasks : 0 \in TaskInputs(t)}

(***************************************************************************)
(* C1: once the tasks have been added and no call is in progress, when the *)
(* worker thread has run the factory callback and returned, no added task  *)
(* is NEW or RUNNING.                                                      *)
(***************************************************************************)
C1_ExitLeavesNoNew ==
    (WorkerExited /\ cpc[Main] = "idle") =>
        \A t \in Added : status[t] \notin {"NEW", "RUNNING"}

(***************************************************************************)
(* C3: an added task whose inputs never become available has never been    *)
(* invoked, is never RUNNING, and is PENDING when the worker has exited.    *)
(***************************************************************************)
C3_StarvedIsPending ==
    \A t \in Starved \cap Added :
        /\ runs[t] = 0
        /\ status[t] # "RUNNING"
        /\ (WorkerExited /\ cpc[Main] = "idle") => status[t] = "PENDING"

(***************************************************************************)
(* C4: when hold() returns, no worker thread is alive and no added task is *)
(* NEW or RUNNING.                                                         *)
(***************************************************************************)
C4_HoldReturnsDone ==
    cpc[Main] = "held" =>
        /\ \A w \in Workers : ~Alive(w)
        /\ \A t \in Added : status[t] \notin {"NEW", "RUNNING"}

(***************************************************************************)
(* One thread calls run() on tasks, also on tasks it has added before, and *)
(* ends with a call of stop().                                             *)
(***************************************************************************)
InitStop ==
    /\ InitCommon
    /\ NoData
    /\ store = {}
    /\ stop_on_error = FALSE
    /\ nosession = FALSE
    /\ cbs = "none"
    /\ cops = [c \in Clients |-> IF c = Main THEN StopOps ELSE 0]

\* Task.run while a later call is still to come
RunEarly(c, t, m) ==
    /\ cops[c] > 1
    /\ RunBegin(c, t, m)

\* Factory.stop as the last call
StopLast(c) ==
    /\ cops[c] = 1
    /\ Stop(c)

NextStop ==
    \/ \E t \in Tasks, m \in Modes : RunEarly(Main, t, m)
    \/ StopLast(Main)
    \/ AddNext({Main})
    \/ WorkerNext

SpecStop == InitStop /\ [][NextStop]_vars

(***************************************************************************)
(* C7: after stop() has been called while the worker was executing a task, *)
(* and no task has been added since, the worker does not end without the   *)
(* factory callback, it starts no other task than the one it was executing,*)
(* and every task that had not been started is still NEW.                  *)
(***************************************************************************)
C7_StopLetsFinish ==
    \A s \in stopped :
        /\ wpc[s.worker] # "crashed"
        /\ Alive(s.worker) => wcur[s.worker] = s.task
        /\ \A t \in s.new : status[t] = "NEW"

(***************************************************************************)
(* C8: with stop_on_error set, a worker one of whose tasks has ended in    *)
(* ERROR calls safe_run on no further task.                                *)
(***************************************************************************)
\* a task that worker w has run has ended in ERROR
SawError(w) == \E i \in 1..Len(wsum[w]) : status[wsum[w][i]] = "ERROR"

C8_ErrorStopsWorker ==
    \A w \in Workers :
        (stop_on_error /\ SawError(w)) => wpc[w] \notin {"saferun", "decide", "run"}

(***************************************************************************)
(* C10 as amended: a NEW or PENDING task whose output exists and for which *)
(* no write mode is requested when safe_run decides, gets status SKIPPED;  *)
(* its function is not invoked and the storage is not changed.             *)
(***************************************************************************)
C10_SkippedWhenComplete ==
    [][\A w \in Workers :
        (wpc[w] = "decide" /\ wpc'[w] # "decide" /\ complete(wcur[w])
            /\ mode[wcur[w]] = "none") =>
                /\ status'[wcur[w]] = "SKIPPED"
                /\ wpc'[w] # "run"
                /\ runs' = runs
                /\ store' = store
      ]_vars

\* safe_run has ended with SKIPPED for a task that has never been invoked
C10_Witness ==
    \E w \in Workers :
        /\ wpc[w] = "after"
        /\ wst[w] = "SKIPPED"
        /\ status[wcur[w]] = "SKIPPED"
        /\ runs[wcur[w]] = 0
        /\ TaskOutput(wcur[w]) \in store

\* C10 as stated: whenever safe_run starts on a task whose output exists and
\* for which no write mode is requested, the task gets status SKIPPED
C10_AnyTaskSkipped ==
    [][\A w \in Workers :
        (wpc[w] = "saferun" /\ wpc'[w] # "saferun" /\ complete(wcur[w])
            /\ mode[wcur[w]] = "none") =>
                (wpc'[w] = "decide" \/ status'[wcur[w]] = "SKIPPED")
      ]_vars

(***************************************************************************)
(* Two threads call run(), without a write mode, on tasks of the same      *)
(* factory.                                                                *)
(***************************************************************************)
InitTwo ==
    /\ InitCommon
    /\ NoData
    /\ store = {}
    /\ stop_on_error = FALSE
    /\ nosession = FALSE
    /\ cbs = "none"
    /\ cops = [c \in Clients |-> IF c = Main THEN TwoOps ELSE OtherOps]

NextTwo ==
    \/ \E c \in Clients, t \in Tasks : RunBegin(c, t, "none")
    \/ AddNext(Clients)
    \/ WorkerNext

SpecTwo == InitTwo /\ [][NextTwo]_vars

(***************************************************************************)
(* C5: at most one worker thread of the factory is alive, and at most one  *)
(* task has status RUNNING.                                                *)
(***************************************************************************)
C5_OneWorker ==
    /\ Cardinality({w \in Workers : Alive(w)}) <= 1
    /\ Cardinality({t \in Tasks : status[t] = "RUNNING"}) <= 1

(***************************************************************************)
(* C2: the function of a task is invoked at most once.                     *)
(***************************************************************************)
C2_InvokedOnce == \A t \in Tasks : runs[t] <= 1

(***************************************************************************)
(* The user's callbacks call run() on a task: the per-task callback of a   *)
(* PENDING task, or the factory's completion callback.                     *)
(***************************************************************************)
InitCb ==
    /\ InitCommon
    /\ NoData
    /\ store = {}
    /\ stop_on_error = FALSE
    /\ nosession = FALSE
    /\ cbs \in Callbacks \ {"none"}
    /\ cops = [c \in Clients |-> IF c = Main THEN TwoOps ELSE 0]

NextCb ==
    \/ \E t \in Tasks, m \in Modes : RunBegin(Main, t, m)
    \/ AddNext(Threads)
    \/ WorkerNext

SpecCb == InitCb /\ [][NextCb]_vars

(***************************************************************************)
(* C6: a worker thread that calls add_task from a callback is never left   *)
(* waiting for the factory lock while it holds that lock itself, so the    *)
(* call can return.                                                        *)
(***************************************************************************)
C6_CallbackAddReturns ==
    \A w \in Workers : ~(call[w].pc = "put" /\ lock = w)

(***************************************************************************)
(* Targets and values of a storage.  A target is a name and a branch, the  *)
(* index being the same for all; a value has two parts.                    *)
(***************************************************************************)
MaxBranch == 2
NParts == 2

Branches == {[i \in 1..k |-> i] : k \in 0..MaxBranch}
Values == (1..NParts) \X (1..NParts)

\* Input.target / Output.target: the target of a destination name
Target(dest, branch) == <<dest, branch>>
TargetName(target) == target[1]
TargetBranch(target) == target[2]

\* TargetStorage.exists
exists(target) == target \in DOMAIN memory

\* the factory state of a specification that runs no factory
NoFactory ==
    /\ InitCommon
    /\ store = {}
    /\ stop_on_error = FALSE
    /\ nosession = FALSE
    /\ cbs = "none"
    /\ cops = [c \in Clients |-> 0]
    /\ graph = NoGraph

\* the storage state of a specification that makes no storage call
NoStorageCall ==
    /\ target_lock = {}
    /\ temporary = FALSE
    /\ comparators = {}
    /\ on_write = 0
    /\ raised = "none"
    /\ summary = <<>>
    /\ last = <<>>

(***************************************************************************)
(* Input resolution: Task._update, Task.ready and the decision of          *)
(* Task.safe_run, for the task of a non-aggregating machine with output    *)
(* "C" on one input identifier.                                            *)
(***************************************************************************)
\* Machine.inputs of the machines considered: no input, one input with the
\* alternatives A and A2, and the same with a second input B
MachineInputs == {<<>>, << <<"A", "A2">> >>, << <<"A", "A2">>, <<"B">> >>}
InputNames == DOMAIN inputs
\* the targets that may be an input of the task
ResTargets == {Target(d, b) : d \in {"A", "A2", "B"}, b \in Branches}

\* Task.output
TaskOutputTarget == Target("C", id_branch)

\* a variant of crop that drops every atom at once
cropAll(branch) == IF 1 > Len(branch) THEN None ELSE <<>>

\* IdBase.crop(1)
crop(branch) ==
    IF 1 > Len(branch) THEN None ELSE SubSeq(branch, 1, Len(branch) - 1)

\* a variant of Task.fallback that does not look at requires
fallbackAnyRequires == run_fallback

\* Task.fallback
fallback == run_fallback /\ requires = "all"

\* a variant of the loop that takes the last existing alternative
LastExisting(alts, branch) ==
    LET found == {i \in 1..Len(alts) : exists(Target(alts[i], branch))}
    IN  IF found = {} THEN 0
        ELSE CHOOSE i \in found : \A j \in found : i >= j

\* the loop over the alternatives of one input at one branch: the position
\* of the first alternative whose target exists, 0 when the loop ends
\* without break
FirstExisting(alts, branch) ==
    LET found == {i \in 1..Len(alts) : exists(Target(alts[i], branch))}
    IN  IF found = {} THEN 0
        ELSE CHOOSE i \in found : \A j \in found : i <= j

\* the branch fallback loop of _update for one input
RECURSIVE FindTarget(_, _)
FindTarget(alts, branch) ==
    LET i == FirstExisting(alts, branch)
    IN  IF i # 0 THEN Target(alts[i], branch)
        ELSE IF fallback /\ branch # None THEN FindTarget(alts, crop(branch))
        ELSE None

\* the local `targets` of _update, None standing for a missing key
FoundTargets == [n \in InputNames |-> FindTarget(inputs[n], id_branch)]

\* a variant of the skip test that drops the targets only when none was found
SkipTargetsNoneFound == \A n \in InputNames : FoundTargets[n] = None

\* `all(target.branch != id.branch for target in targets.values())`
SkipTargets ==
    \A n \in InputNames :
        FoundTargets[n] # None => TargetBranch(FoundTargets[n]) # id_branch

\* Task._update of a NEW or PENDING task: the new available_inputs
Update == [n \in InputNames |-> IF SkipTargets THEN None ELSE FoundTargets[n]]

\* a variant of the join that takes all for any and any for all
JoinSwapped(req, av) ==
    IF req = "any" THEN \A n \in DOMAIN av : av[n] # None
    ELSE \E n \in DOMAIN av : av[n] # None

\* {"all": all, "any": any}[self.requires] on the values of available_inputs
Join(req, av) ==
    IF req = "all" THEN \A n \in DOMAIN av : av[n] # None
    ELSE \E n \in DOMAIN av : av[n] # None

\* Task.ready, given the available_inputs that _update leaves
Ready(av) ==
    IF inputs = <<>> THEN TRUE
    ELSE DOMAIN av # {} /\ Join(requires, av)

\* Task.complete
Complete == exists(TaskOutputTarget)

\* Task.safe_run up to the status it sets under the task lock
TaskSafeRun ==
    LET av == IF inputs = <<>> THEN available_inputs ELSE Update
        skipped == Complete /\ task_mode = "none"
    IN  /\ task_status \in {"NEW", "PENDING"}
        /\ task_status' = IF skipped THEN "SKIPPED"
                          ELSE IF ~Ready(av) THEN "PENDING" ELSE "RUNNING"
        /\ available_inputs' = IF skipped THEN available_inputs ELSE av
        /\ UNCHANGED <<taskvars, factvars, workvars, clientvars, histvars, graph, storvars,
                       requires, run_fallback, inputs, id_branch, task_mode, extvars>>

\* another task writes one of the targets while the task is PENDING
OtherTaskWrites(target, value) ==
    /\ task_status = "PENDING"
    /\ ~exists(target)
    /\ memory' = [t \in DOMAIN memory \cup {target} |->
                     IF t = target THEN value ELSE memory[t]]
    /\ UNCHANGED <<taskvars, factvars, workvars, clientvars, histvars, graph, target_lock,
                   temporary, comparators, on_write, raised, summary, last, resvars, extvars>>

InitResolve ==
    /\ NoFactory
    /\ NoExt
    /\ NoStorageCall
    /\ requires \in {"all", "any"}
    /\ run_fallback \in BOOLEAN
    /\ inputs \in MachineInputs
    /\ id_branch \in Branches
    /\ \E S \in SUBSET (ResTargets \cup {TaskOutputTarget}) :
           memory = [t \in S |-> <<1, 1>>]
    /\ task_mode \in {"none", "overwrite"}
    /\ available_inputs = <<>>
    /\ task_status = "NEW"

NextResolve ==
    \/ TaskSafeRun
    \/ \E target \in ResTargets : OtherTaskWrites(target, <<1, 1>>)

SpecResolve == InitResolve /\ [][NextResolve]_vars

\* a step of safe_run that does not end with SKIPPED
SafeRunStep ==
    /\ task_status \in {"NEW", "PENDING"}
    /\ task_status' \in {"RUNNING", "PENDING"}
    /\ memory' = memory

\* input n has an alternative whose target exists at branch b
ExistsAt(n, b) == \E i \in 1..Len(inputs[n]) : exists(Target(inputs[n][i], b))

\* the alternatives of input n
Alternatives(n) == {inputs[n][i] : i \in 1..Len(inputs[n])}

(***************************************************************************)
(* C11: safe_run that does not skip the task sets RUNNING exactly when the *)
(* machine has no inputs, or requires = all and every declared input is    *)
(* resolved, or requires = any and at least one declared input is          *)
(* resolved; otherwise it sets PENDING.  A resolved input is an existing   *)
(* target of one of the input's alternatives.                              *)
(***************************************************************************)
C11_ReadyIffResolved ==
    [][SafeRunStep =>
        LET resolved(n) == available_inputs'[n] # None
        IN  /\ task_status' = "RUNNING" <=>
                \/ inputs = <<>>
                \/ requires = "all" /\ \A n \in InputNames : resolved(n)
                \/ requires = "any" /\ \E n \in InputNames : resolved(n)
            /\ \A n \in InputNames :
                   resolved(n) =>
                       /\ exists(available_inputs'[n])
                       /\ TargetName(available_inputs'[n]) \in Alternatives(n)
            /\ inputs = <<>> => task_status' = "RUNNING"]_vars

\* a task that requires any input runs with one input resolved and one not
C11_Witness ==
    /\ task_status = "RUNNING"
    /\ requires = "any"
    /\ \E n, m \in InputNames : available_inputs[n] # None /\ available_inputs[m] = None

\* the branches that cropping id_branch goes through
Prefixes(branch) == {SubSeq(branch, 1, k) : k \in 0..Len(branch)}

\* input n has an existing alternative at id_branch or at one of its crops
HasNearest(n) == \E p \in Prefixes(id_branch) : ExistsAt(n, p)

\* the longest of these branches
Nearest(n) ==
    CHOOSE p \in Prefixes(id_branch) :
        /\ ExistsAt(n, p)
        /\ \A q \in Prefixes(id_branch) : ExistsAt(n, q) => Len(q) <= Len(p)

\* some input of the task has an existing alternative at exactly id_branch
SomeExact == \E m \in InputNames : ExistsAt(m, id_branch)

(***************************************************************************)
(* C12 as stated: with requires = all and fallback enabled, an input that  *)
(* does not exist at the requested branch but exists at a cropped branch   *)
(* is resolved to the target at the nearest cropped branch, the branch     *)
(* being cropped one atom at a time down to the empty branch.              *)
(***************************************************************************)
C12_FallbackResolves ==
    [][(SafeRunStep /\ requires = "all" /\ run_fallback) =>
        \A n \in InputNames :
            (~ExistsAt(n, id_branch) /\ HasNearest(n)) =>
                /\ available_inputs'[n] # None
                /\ TargetBranch(available_inputs'[n]) = Nearest(n)]_vars

(***************************************************************************)
(* C12 as the code has it: the same, provided that some input of the task  *)
(* exists at exactly the requested branch; when no input does, no input is *)
(* resolved and the task gets PENDING.                                     *)
(***************************************************************************)
C12_FallbackNeedsExactInput ==
    [][(SafeRunStep /\ requires = "all" /\ run_fallback) =>
        /\ SomeExact =>
               \A n \in InputNames :
                   (~ExistsAt(n, id_branch) /\ HasNearest(n)) =>
                       /\ available_inputs'[n] # None
                       /\ TargetBranch(available_inputs'[n]) = Nearest(n)
        /\ (~SomeExact /\ inputs # <<>>) =>
               /\ \A n \in InputNames : available_inputs'[n] = None
               /\ task_status' = "PENDING"]_vars

\* an input is taken from the empty branch, two crops away from the branch
\* asked for, and the task runs
C12_Witness ==
    /\ task_status = "RUNNING"
    /\ requires = "all"
    /\ run_fallback
    /\ Len(id_branch) = 2
    /\ \E n \in InputNames :
           /\ available_inputs[n] # None
           /\ TargetBranch(available_inputs[n]) = <<>>
           /\ ~ExistsAt(n, id_branch)
           /\ ~ExistsAt(n, crop(id_branch))

(***************************************************************************)
(* C13: when the machine has requires = any, or the run was requested with *)
(* fallback off, safe_run resolves an input only to a target at exactly    *)
(* the requested branch, never to one at a cropped branch.                 *)
(***************************************************************************)
C13_NoFallbackExactBranch ==
    [][(SafeRunStep /\ (requires = "any" \/ ~run_fallback)) =>
        \A n \in InputNames :
            available_inputs'[n] # None =>
                TargetBranch(available_inputs'[n]) = id_branch]_vars

\* a task that requires any input and was run with fallback on runs with an
\* input left unresolved although it exists at a cropped branch
C13_Witness ==
    /\ task_status = "RUNNING"
    /\ requires = "any"
    /\ run_fallback
    /\ \E n, m \in InputNames :
           /\ available_inputs[n] = None
           /\ HasNearest(n)
           /\ available_inputs[m] # None
           /\ TargetBranch(available_inputs[m]) = id_branch

(***************************************************************************)
(* C14: the target an input is resolved to is that of the first            *)
(* alternative, in declared order, that exists at the branch of the        *)
(* target, and no alternative of the input exists at a branch nearer to    *)
(* the requested one: every alternative is tried at a branch before the    *)
(* branch is cropped.                                                      *)
(***************************************************************************)
C14_FirstAlternativeNearestBranch ==
    [][SafeRunStep =>
        \A n \in InputNames :
            available_inputs'[n] # None =>
                LET t == available_inputs'[n]
                    b == TargetBranch(t)
                IN  /\ \E i \in 1..Len(inputs[n]) :
                           /\ inputs[n][i] = TargetName(t)
                           /\ \A j \in 1..(i - 1) : ~exists(Target(inputs[n][j], b))
                    /\ b \in Prefixes(id_branch)
                    /\ \A q \in Prefixes(id_branch) :
                           Len(q) > Len(b) => ~ExistsAt(n, q)]_vars

\* with fallback on, the second alternative at the requested branch is taken
\* although the first alternative exists at the cropped branch
C14_Witness ==
    /\ task_status = "RUNNING"
    /\ fallback
    /\ id_branch # <<>>
    /\ \E n \in InputNames :
           /\ Len(inputs[n]) = 2
           /\ ~exists(Target(inputs[n][1], id_branch))
           /\ exists(Target(inputs[n][1], crop(id_branch)))
           /\ available_inputs[n] = Target(inputs[n][2], id_branch)

(***************************************************************************)
(* TargetStorage: write and remove on one storage whose callbacks are set. *)
(***************************************************************************)
StorNames == {"A", "B"}
StorTargets == {Target(n, <<>>) : n \in StorNames}

\* the mode argument of write: None, the four named modes, and a value that
\* is none of them
StorModes == {"none", "readonly", "overwrite", "upgrade", "test", "other"}

\* the memories over a set of targets
Memories(T) == UNION {[S -> Values] : S \in SUBSET T}

\* the comparator registered in test_comparators: the first parts are equal
Comparator(previous, data) == previous[1] = data[1]

\* a variant of _compare that never looks up the comparators
compareValues(target, data) == memory[target] = data

\* TargetStorage._compare
compare(target, data) ==
    IF TargetName(target) \in comparators
    THEN Comparator(memory[target], data)
    ELSE memory[target] = data

\* a variant of write that tests the lock list before anything else
WriteOutcomeLockFirst(target, data, wmode) ==
    IF TargetName(target) \in target_lock THEN "TargetIsLocked"
    ELSE IF ~exists(target) THEN "write"
    ELSE IF wmode \in {"test", "upgrade"}
         THEN IF compare(target, data) \/ wmode = "test" THEN "skip" ELSE "write"
    ELSE IF wmode = "overwrite" THEN "write"
    ELSE IF wmode \in {"none", "readonly"} THEN "TargetAlreadyExists"
    ELSE "ValueError"

\* a variant of write whose mode test never writes
WriteOutcomeTestNever(target, data, wmode) ==
    IF wmode = "test" /\ ~exists(target) THEN "skip"
    ELSE IF exists(target)
    THEN IF TargetName(target) \in target_lock THEN "TargetIsLocked"
         ELSE IF wmode \in {"test", "upgrade"}
              THEN IF compare(target, data) \/ wmode = "test" THEN "skip" ELSE "write"
         ELSE IF wmode = "overwrite" THEN "write"
         ELSE IF wmode \in {"none", "readonly"} THEN "TargetAlreadyExists"
         ELSE "ValueError"
    ELSE "write"

\* a variant of write that overwrites when no mode is given
WriteOutcomeAlways(target, data, wmode) ==
    IF exists(target)
    THEN IF TargetName(target) \in target_lock THEN "TargetIsLocked"
         ELSE IF wmode \in {"test", "upgrade"}
              THEN IF compare(target, data) \/ wmode = "test" THEN "skip" ELSE "write"
         ELSE IF wmode \in {"overwrite", "none", "readonly"} THEN "write"
         ELSE "ValueError"
    ELSE "write"

\* a variant of write that takes no mode for overwrite
WriteOutcomeDefaultOverwrite(target, data, wmode) ==
    IF exists(target)
    THEN IF TargetName(target) \in target_lock THEN "TargetIsLocked"
         ELSE IF wmode \in {"test", "upgrade"}
              THEN IF compare(target, data) \/ wmode = "test" THEN "skip" ELSE "write"
         ELSE IF wmode \in {"overwrite", "none"} THEN "write"
         ELSE IF wmode = "readonly" THEN "TargetAlreadyExists"
         ELSE "ValueError"
    ELSE "write"

\* TargetStorage.write up to `# write target`: the exception it raises,
\* "skip" when it returns early, "write" when it goes on
WriteOutcome(target, data, wmode) ==
    IF exists(target)
    THEN IF TargetName(target) \in target_lock THEN "TargetIsLocked"
         ELSE IF wmode \in {"test", "upgrade"}
              THEN IF compare(target, data) \/ wmode = "test" THEN "skip" ELSE "write"
         ELSE IF wmode = "overwrite" THEN "write"
         ELSE IF wmode \in {"none", "readonly"} THEN "TargetAlreadyExists"
         ELSE "ValueError"
    ELSE "write"

\* self.memory[target] = data
Stored(mem, target, data) ==
    [t \in DOMAIN mem \cup {target} |-> IF t = target THEN data ELSE mem[t]]

\* del self.memory[target]
Deleted(mem, target) == [t \in DOMAIN mem \ {target} |-> mem[t]]

\* TargetStorage.write
StorageWrite(target, data, wmode) ==
    LET o == WriteOutcome(target, data, wmode)
    IN  /\ memory' = IF o = "write" THEN Stored(memory, target, data) ELSE memory
        /\ on_write' = IF o = "write" THEN 1 ELSE 0
        /\ raised' = IF o \in {"write", "skip"} THEN "none" ELSE o
        /\ last' = [op |-> "write", target |-> target, data |-> data, mode |-> wmode,
                    memory |-> memory]
        /\ UNCHANGED <<taskvars, factvars, workvars, clientvars, histvars, graph, target_lock,
                       temporary, comparators, summary, resvars, extvars>>

\* TargetStorage.remove: the exception it raises, "remove" when it goes on
RemoveOutcome(mem, target) ==
    IF TargetName(target) \in target_lock THEN "TargetIsLocked"
    ELSE IF target \notin DOMAIN mem THEN "TargetDoesNotExist"
    ELSE "remove"

\* TargetStorage.remove
StorageRemove(target) ==
    LET o == RemoveOutcome(memory, target)
    IN  /\ memory' = IF o = "remove" THEN Deleted(memory, target) ELSE memory
        /\ on_write' = 0
        /\ raised' = IF o = "remove" THEN "none" ELSE o
        /\ last' = [op |-> "remove", target |-> target, data |-> None, mode |-> "none",
                    memory |-> memory]
        /\ UNCHANGED <<taskvars, factvars, workvars, clientvars, histvars, graph, target_lock,
                       temporary, comparators, summary, resvars, extvars>>

\* TargetStorage.read: the value returned, or the exception raised
read(target) == IF exists(target) THEN memory[target] ELSE "TargetDoesNotExist"

\* the task state of a specification that resolves no input
NoTask ==
    /\ requires = "all"
    /\ run_fallback = TRUE
    /\ inputs = <<>>
    /\ id_branch = <<>>
    /\ task_mode = "none"
    /\ available_inputs = <<>>
    /\ task_status = "NEW"

InitStorage ==
    /\ NoFactory
    /\ NoExt
    /\ NoTask
    /\ memory \in Memories(StorTargets)
    /\ target_lock \in SUBSET StorNames
    /\ comparators \in SUBSET StorNames
    /\ temporary = FALSE
    /\ on_write = 0
    /\ raised = "none"
    /\ summary = <<>>
    /\ last = <<>>

NextStorage ==
    \/ \E target \in StorTargets, data \in Values, wmode \in StorModes :
           StorageWrite(target, data, wmode)
    \/ \E target \in StorTargets : StorageRemove(target)

SpecStorage == InitStorage /\ [][NextStorage]_vars

\* the last call was write(t, v, mode=m)
Wrote(t, v, m) ==
    /\ last # <<>>
    /\ last.op = "write"
    /\ last.target = t
    /\ last.data = v
    /\ last.mode = m

\* the memory before the last call
Before == last.memory

(***************************************************************************)
(* C15 as stated: write(t, v) without mode on an absent target returns,    *)
(* and then t exists and read(t) is v; write(t, v) without mode on an      *)
(* existing target raises TargetAlreadyExists and leaves the storage as it *)
(* was.                                                                    *)
(***************************************************************************)
C15_SecondWriteAlreadyExists ==
    \A t \in StorTargets, v \in Values :
        Wrote(t, v, "none") =>
            IF t \notin DOMAIN Before
            THEN raised = "none" /\ exists(t) /\ read(t) = v
            ELSE raised = "TargetAlreadyExists" /\ memory = Before

(***************************************************************************)
(* C15 as the code has it: the same, except that the write without mode on *)
(* an existing target raises TargetIsLocked when the name of the target is *)
(* in the lock list, and TargetAlreadyExists only when it is not.          *)
(***************************************************************************)
C15_SecondWriteRaises ==
    \A t \in StorTargets, v \in Values :
        Wrote(t, v, "none") =>
            IF t \notin DOMAIN Before
            THEN raised = "none" /\ exists(t) /\ read(t) = v
            ELSE /\ raised = IF TargetName(t) \in target_lock
                             THEN "TargetIsLocked" ELSE "TargetAlreadyExists"
                 /\ memory = Before

\* a second write without mode, of another value, has raised
\* TargetAlreadyExists and the first value is still read
C15_Witness ==
    \E t \in StorTargets, v \in Values :
        /\ Wrote(t, v, "none")
        /\ t \in DOMAIN Before
        /\ raised = "TargetAlreadyExists"
        /\ read(t) # v
        /\ read(t) = Before[t]

(***************************************************************************)
(* C16: write(t, v, mode=upgrade) on an existing target whose name is not  *)
(* locked: when the comparator registered for the name, or value equality  *)
(* when none is registered, finds the stored value and v equal, the        *)
(* storage is unchanged and on_write is not called; otherwise the stored   *)
(* value becomes v.                                                        *)
(***************************************************************************)
C16_UpgradeComparesFirst ==
    \A t \in StorTargets, v \in Values :
        (/\ Wrote(t, v, "upgrade")
         /\ t \in DOMAIN Before
         /\ TargetName(t) \notin target_lock) =>
            LET same == IF TargetName(t) \in comparators
                        THEN Comparator(Before[t], v)
                        ELSE Before[t] = v
            IN  /\ raised = "none"
                /\ same => (memory = Before /\ on_write = 0)
                /\ ~same => memory = Stored(Before, t, v)

\* an upgrade with a value that differs from the stored one but that the
\* registered comparator finds equal has left the storage as it was
C16_Witness ==
    \E t \in StorTargets, v \in Values :
        /\ Wrote(t, v, "upgrade")
        /\ t \in DOMAIN Before
        /\ TargetName(t) \notin target_lock
        /\ TargetName(t) \in comparators
        /\ Before[t] # v
        /\ memory = Before
        /\ on_write = 0

(***************************************************************************)
(* C17 as stated: write(t, v, mode=test) leaves the storage as it was,     *)
(* whether or not t exists and whatever v is.                              *)
(***************************************************************************)
C17_TestNeverWrites ==
    \A t \in StorTargets, v \in Values :
        Wrote(t, v, "test") => memory = Before

(***************************************************************************)
(* C17 as the code has it: write(t, v, mode=test) leaves the storage as it *)
(* was when t exists; when t does not exist it stores v as a write without *)
(* mode does, and calls on_write.                                          *)
(***************************************************************************)
C17_TestWritesAbsentOnly ==
    \A t \in StorTargets, v \in Values :
        Wrote(t, v, "test") =>
            IF t \in DOMAIN Before
            THEN memory = Before /\ on_write = 0
            ELSE memory = Stored(Before, t, v) /\ on_write = 1 /\ raised = "none"

\* a write in mode test of a value that differs from the stored one has
\* returned and the stored value is the old one
C17_Witness ==
    \E t \in StorTargets, v \in Values :
        /\ Wrote(t, v, "test")
        /\ t \in DOMAIN Before
        /\ Before[t] # v
        /\ raised = "none"
        /\ read(t) = Before[t]

(***************************************************************************)
(* C18 as stated: a write to a target whose name is in the lock list       *)
(* raises TargetIsLocked and leaves the storage as it was, in every mode   *)
(* and whether or not the target exists.                                   *)
(***************************************************************************)
C18_LockedWriteFails ==
    \A t \in StorTargets, v \in Values, m \in StorModes :
        (Wrote(t, v, m) /\ TargetName(t) \in target_lock) =>
            raised = "TargetIsLocked" /\ memory = Before

(***************************************************************************)
(* C18 as the code has it: a write to an existing target whose name is in  *)
(* the lock list raises TargetIsLocked and leaves the storage as it was,   *)
(* in every mode; a write to an absent target of such a name stores the    *)
(* value, in every mode.                                                   *)
(***************************************************************************)
C18_LockedExistingWriteFails ==
    \A t \in StorTargets, v \in Values, m \in StorModes :
        (Wrote(t, v, m) /\ TargetName(t) \in target_lock) =>
            IF t \in DOMAIN Before
            THEN raised = "TargetIsLocked" /\ memory = Before /\ on_write = 0
            ELSE raised = "none" /\ memory = Stored(Before, t, v)

\* an overwrite of an existing target of a locked name, with another value,
\* has raised TargetIsLocked
C18_Witness ==
    \E t \in StorTargets, v \in Values :
        /\ Wrote(t, v, "overwrite")
        /\ TargetName(t) \in target_lock
        /\ t \in DOMAIN Before
        /\ Before[t] # v
        /\ raised = "TargetIsLocked"
        /\ read(t) = Before[t]

(***************************************************************************)
(* TargetStorage.cleanup, called with a summary of tasks.                  *)
(***************************************************************************)
MaxSummary == 2

CleanTargets == StorTargets \cup {Target("A", <<1>>)}

Statuses == {"PENDING", "SUCCESS", "SKIPPED", "REJECTED", "ERROR"}

\* Task.inputs of a task with one input name: the target, or None, of a
\* non-aggregating task; the list of targets of an aggregating task
SummaryTasks ==
    [inputs : {<<x>> : x \in CleanTargets \cup {None}}, status : Statuses,
     aggregate : {FALSE}]
    \cup [inputs : {<< <<>> >>} \cup {<< <<x>> >> : x \in CleanTargets},
          status : Statuses, aggregate : {TRUE}]

Summaries == UNION {[1..k -> SummaryTasks] : k \in 0..MaxSummary}

\* the input targets of a task that are stored here
StoredInputs(task) ==
    IF task.aggregate
    THEN {x \in CleanTargets :
              \E i \in 1..Len(task.inputs) :
                  \E j \in 1..Len(task.inputs[i]) :
                      task.inputs[i][j] = x /\ exists(x)}
    ELSE {x \in CleanTargets :
              \E i \in 1..Len(task.inputs) :
                  task.inputs[i] = x /\ x # None /\ exists(x)}

\* the local `tasks` of cleanup
FinishedTasks ==
    {i \in 1..Len(summary) :
         summary[i].status \in {"ERROR", "REJECTED", "SUCCESS", "SKIPPED"}}

AllTargets == UNION {StoredInputs(summary[i]) : i \in FinishedTasks}

KeepTargets ==
    UNION {StoredInputs(summary[i]) :
               i \in {j \in FinishedTasks : summary[j].status = "ERROR"}}

RemoveTargets == AllTargets \ KeepTargets

\* targets of RemoveTargets that remove() refuses
LockedTargets == {x \in RemoveTargets : TargetName(x) \in target_lock}

\* TargetStorage.cleanup: nothing on a storage that is not temporary; else
\* remove() on each target of the set remove_targets, in the order the set
\* is iterated in; the first target of a locked name ends the loop with
\* TargetIsLocked, the targets R removed before it are gone
StorageCleanup ==
    /\ last = <<>>
    /\ last' = [op |-> "cleanup", target |-> None, data |-> None, mode |-> "none",
                memory |-> memory]
    /\ on_write' = 0
    /\ IF ~temporary
       THEN memory' = memory /\ raised' = "none"
       ELSE IF LockedTargets = {}
       THEN /\ memory' = [t \in DOMAIN memory \ RemoveTargets |-> memory[t]]
            /\ raised' = "none"
       ELSE /\ \E R \in SUBSET (RemoveTargets \ LockedTargets) :
                   memory' = [t \in DOMAIN memory \ R |-> memory[t]]
            /\ raised' = "TargetIsLocked"
    /\ UNCHANGED <<taskvars, factvars, workvars, clientvars, histvars, graph, target_lock,
                   temporary, comparators, summary, resvars, extvars>>

InitCleanup ==
    /\ NoFactory
    /\ NoExt
    /\ NoTask
    /\ \E S \in SUBSET CleanTargets : memory = [t \in S |-> <<1, 1>>]
    /\ target_lock \in SUBSET StorNames
    /\ comparators = {}
    /\ temporary \in BOOLEAN
    /\ on_write = 0
    /\ raised = "none"
    /\ summary \in Summaries
    /\ last = <<>>

NextCleanup == StorageCleanup

SpecCleanup == InitCleanup /\ [][NextCleanup]_vars

\* cleanup has been called
CleanedUp == last # <<>> /\ last.op = "cleanup"

\* x is an input of the i-th task of the summary
InputOf(x, i) ==
    \E k \in 1..Len(summary[i].inputs) :
        IF summary[i].aggregate
        THEN \E j \in 1..Len(summary[i].inputs[k]) : summary[i].inputs[k][j] = x
        ELSE summary[i].inputs[k] = x

\* the targets the claim has removed
ToRemove ==
    {x \in DOMAIN Before :
         /\ \E i \in 1..Len(summary) :
                summary[i].status \in {"SUCCESS", "SKIPPED", "REJECTED"} /\ InputOf(x, i)
         /\ ~\E i \in 1..Len(summary) : summary[i].status = "ERROR" /\ InputOf(x, i)}

(***************************************************************************)
(* C19: cleanup(summary) on a temporary storage returns having removed     *)
(* exactly the stored targets that are an input of a SUCCESS, SKIPPED or   *)
(* REJECTED task of the summary and of no ERROR task; the stored inputs of *)
(* the ERROR tasks are kept; on a storage that is not temporary it changes *)
(* nothing.                                                                *)
(***************************************************************************)
C19_CleanupRemovesExactly ==
    CleanedUp =>
        IF temporary
        THEN /\ raised = "none"
             /\ memory = [t \in DOMAIN Before \ ToRemove |-> Before[t]]
        ELSE memory = Before

(***************************************************************************)
(* DependencyGraph.run on the graph of all the tasks, called by the main   *)
(* thread of a factory whose main storage has a lock list.  The name of a  *)
(* target is its number.                                                   *)
(***************************************************************************)
GraphOps == 1

\* the mode argument of DependencyGraph.run
GraphModes == {"none", "overwrite", "upgrade", "test"}

\* TargetStorage.locked
locked(target) == target \in store /\ target \in target_lock

\* DependencyGraph.output_targets: the outputs that no task of the graph
\* takes as input
output_targets ==
    {TaskOutput(t) : t \in {u \in Tasks : HasOutput(u) /\
                                \A o \in Tasks : TaskOutput(u) \notin TaskInputs(o)}}

\* the tasks of S in the order of DependencyGraph.tasks
TaskSeq(S) == SelectSeq([i \in 1..NTasks |-> i], LAMBDA t : t \in S)

\* the lock test of run()
Rejects(m) == m \in {"overwrite", "upgrade"} /\ \E x \in output_targets : locked(x)

\* run() up to the loop: RejectException, or the tasks to run
GraphBegin(c, m) ==
    LET all == m # "none" \/ output_targets = {}
        rem == IF all THEN TaskSeq(Tasks)
               ELSE TaskSeq({t \in Tasks : HasOutput(t) /\ TaskOutput(t) \in output_targets})
    IN  /\ cpc[c] = "idle"
        /\ cops[c] > 0
        /\ graph.pc \in {"idle", "rejected", "invalid", "done"}
        /\ cops' = [cops EXCEPT ![c] = @ - 1]
        /\ raised' = IF Rejects(m) THEN "RejectException" ELSE "none"
        /\ graph' = IF Rejects(m)
                    THEN [NoGraph EXCEPT !.pc = "rejected", !.mode = m]
                    ELSE [pc |-> "loop", mode |-> m, all |-> all, remaining |-> rem,
                          run |-> <<>>, task |-> 0, unmet |-> {},
                          existed |-> output_targets \subseteq store,
                          fresh |-> {t \in Tasks : /\ status[t] = "NEW"
                                                  /\ ~InSeq(t, queue)
                                                  /\ ~InSeq(t, tasklist)}]
        /\ UNCHANGED <<taskvars, factvars, workvars, cpc, call, histvars, memory,
                       target_lock, temporary, comparators, on_write, summary, last,
                       resvars, extvars>>

\* Factory.check: the storage of the task's output rejects it
CheckFails(t) == HasOutput(t) /\ TaskOutput(t) \in invalid

\* the loop of run(): the first remaining task is run, up to the call of
\* add_task, whose check of the output raises InvalidTarget out of run()
GraphTaskRun(c) ==
    /\ graph.pc = "loop"
    /\ graph.remaining # <<>>
    /\ cpc[c] = "idle"
    /\ LET t == Head(graph.remaining)
       IN  /\ mode' = [mode EXCEPT ![t] = graph.mode]
           /\ IF CheckFails(t)
              THEN /\ raised' = "InvalidTarget"
                   /\ graph' = [graph EXCEPT !.pc = "invalid", !.task = t,
                                             !.remaining = Tail(graph.remaining)]
                   /\ UNCHANGED <<call, cpc>>
              ELSE /\ raised' = raised
                   /\ call' = [call EXCEPT ![c] = [pc |-> "put", task |-> t]]
                   /\ cpc' = [cpc EXCEPT ![c] = "add"]
                   /\ graph' = [graph EXCEPT
                                    !.pc = "check", !.task = t,
                                    !.remaining = Tail(graph.remaining),
                                    !.unmet = IF (HasOutput(t) /\ TaskOutput(t) \in store)
                                                     \/ TaskInputs(t) \subseteq store
                                                 THEN @ ELSE @ \cup {t}]
    /\ stopped' = {}
    /\ UNCHANGED <<status, runs, store, factvars, workvars, cops, arrival, got,
                   memory, target_lock, temporary, comparators, on_write, summary,
                   last, resvars, extvars>>

\* a variant of the test that does not look at the output of the task
NeedsParentsUnready(t) == ~graph.all /\ ~ready(t)

\* the test `not run_all_tasks and not task.complete() and not task.ready()`
NeedsParents(t) == ~graph.all /\ ~complete(t) /\ ~ready(t)

\* the loop of run() once add_task has returned: the task is recorded and,
\* when only the output tasks are run, the parents of a task that is
\* neither complete nor ready are added
GraphCheck(c) ==
    LET t == graph.task
        run == Append(graph.run, t)
        needy == NeedsParents(t)
        parents == TaskSeq({o \in Tasks : /\ ~InSeq(o, run)
                                           /\ HasOutput(o)
                                           /\ TaskOutput(o) \in TaskInputs(t)})
    IN  /\ graph.pc = "check"
        /\ cpc[c] = "idle"
        /\ (~graph.all /\ ~complete(t) /\ TaskInputs(t) # {}) => ~TaskLocked(t)
        /\ graph' = [graph EXCEPT !.pc = "loop", !.task = 0, !.run = run,
                                  !.remaining = IF needy THEN @ \o parents ELSE @]
        /\ UNCHANGED <<taskvars, factvars, workvars, clientvars, histvars, storvars,
                       resvars, extvars>>

\* run() returns run_tasks
GraphReturn(c) ==
    /\ graph.pc = "loop"
    /\ graph.remaining = <<>>
    /\ graph' = [graph EXCEPT !.pc = "done"]
    /\ UNCHANGED <<taskvars, factvars, workvars, clientvars, histvars, storvars,
                   resvars, extvars>>

InitGraph ==
    /\ InitCommon
    /\ NoTask
    /\ memory = <<>>
    /\ temporary = FALSE
    /\ comparators = {}
    /\ on_write = 0
    /\ raised = "none"
    /\ summary = <<>>
    /\ last = <<>>
    /\ graph = NoGraph
    /\ store \in SUBSET {TaskOutput(t) : t \in {u \in Tasks : HasOutput(u)}}
    /\ target_lock \in SUBSET InitTargets
    /\ invalid \in SUBSET {TaskOutput(t) : t \in {u \in Tasks : HasOutput(u)}}
    /\ aggregate = FALSE
    /\ message = None
    /\ error = None
    /\ on_read = <<>>
    /\ slock = None
    /\ users = <<>>
    /\ dry = FALSE
    /\ stop_on_error = FALSE
    /\ nosession = FALSE
    /\ cbs = "none"
    /\ cops = [c \in Clients |-> IF c = Main THEN GraphOps ELSE 0]
    /\ NoSession
    /\ NoFile
    /\ NoAlg

NextGraph ==
    \/ \E m \in GraphModes : GraphBegin(Main, m)
    \/ GraphTaskRun(Main)
    \/ GraphCheck(Main)
    \/ GraphReturn(Main)
    \/ AddNext({Main})
    \/ WorkerNext

SpecGraph == InitGraph /\ [][NextGraph]_vars

\* a step that is a call of DependencyGraph.run
GraphCalled == cops' # cops

(***************************************************************************)
(* C20: when DependencyGraph.run is called with mode overwrite, upgrade or *)
(* test and an output target that a task of the graph writes is locked, it *)
(* raises RejectException and no task is added: the queue and the status   *)
(* of every task are as before, and no task is run later.                  *)
(***************************************************************************)
C20_LockedGraphRejected ==
    [][(/\ GraphCalled
        /\ graph'.mode \in {"overwrite", "upgrade", "test"}
        /\ \E t \in Tasks : HasOutput(t) /\ locked(TaskOutput(t))) =>
            /\ raised' = "RejectException"
            /\ graph'.pc = "rejected"
            /\ queue' = queue
            /\ status' = status]_vars

(***************************************************************************)
(* C21: when a task of the graph has an output target that its storage     *)
(* rejects as invalid, DependencyGraph.run raises before any task of the   *)
(* graph is added to the queue: once run() has been called no task is in   *)
(* the queue or the task list, and no task has left NEW or been run.       *)
(***************************************************************************)
C21_InvalidGraphNotQueued ==
    (graph.pc # "idle" /\ \E t \in Tasks : CheckFails(t)) =>
        /\ queue = <<>>
        /\ tasklist = <<>>
        /\ \A t \in Tasks : status[t] = "NEW" /\ runs[t] = 0

(***************************************************************************)
(* Task.safe_run from RUNNING on: the inputs are read, the function of the *)
(* machine is called and its return value is written.  The task has the    *)
(* output "C"; its inputs are "A" and "B".                                 *)
(***************************************************************************)
\* what a read or the function of the machine raises
Excs == {"RejectException", "ExpectedError", "Exception"}

\* the targets the task may read
RunTargets == {Target("A", <<>>), Target("A", <<1>>), Target("B", <<>>)}
RunInputs == {<<>>, << <<"A">> >>, << <<"A">>, <<"B">> >>}

\* TargetStorage.read: the on_read callback, then memory[target]
ReadOutcome(target) ==
    IF on_read[target] # "none" THEN on_read[target]
    ELSE IF ~exists(target) THEN "Exception"
    ELSE "none"

\* a variant of the aggregate branch that lets RejectException through
RECURSIVE LoadListStrict(_, _)
LoadListStrict(list, nodata) ==
    IF list = <<>> THEN (IF nodata THEN "RejectException" ELSE "none")
    ELSE IF ReadOutcome(Head(list)) = "none" THEN LoadListStrict(Tail(list), FALSE)
    ELSE ReadOutcome(Head(list))

\* _load_input_data, aggregate branch: the targets of one input are read in
\* turn, RejectException is ignored unless no data is left
RECURSIVE LoadList(_, _)
LoadList(list, nodata) ==
    IF list = <<>> THEN (IF nodata THEN "RejectException" ELSE "none")
    ELSE IF ReadOutcome(Head(list)) = "none" THEN LoadList(Tail(list), FALSE)
    ELSE IF ReadOutcome(Head(list)) = "RejectException" THEN LoadList(Tail(list), nodata)
    ELSE ReadOutcome(Head(list))

\* _load_input_data: what it raises ("none" when it returns), the
\* available inputs being read in order
RECURSIVE LoadInputData(_)
LoadInputData(av) ==
    IF av = <<>> THEN "none"
    ELSE LET o == IF Head(av) = None THEN "none"
                  ELSE IF aggregate THEN LoadList(Head(av), TRUE)
                  ELSE ReadOutcome(Head(av))
         IN  IF o # "none" THEN o ELSE LoadInputData(Tail(av))

\* Task.safe_run after RUNNING was set: func is what the function of the
\* machine raises and data what it returns
TaskExecute(func, data) ==
    LET load == LoadInputData(available_inputs)
        exc == IF load # "none" THEN load ELSE func
        o == WriteOutcome(TaskOutputTarget, data, task_mode)
    IN  /\ task_status = "RUNNING"
        /\ last' = [op |-> "safe_run", func |-> func, data |-> data, memory |-> memory]
        /\ IF exc = "RejectException"
           THEN /\ message' = <<"msg">>
                /\ task_status' = "REJECTED"
                /\ UNCHANGED <<error, memory, on_write, raised>>
           ELSE IF exc = "ExpectedError"
           THEN /\ message' = <<"msg">>
                /\ task_status' = "ERROR"
                /\ UNCHANGED <<error, memory, on_write, raised>>
           ELSE IF exc = "Exception"
           THEN /\ error' = <<"Exception", "traceback">>
                /\ task_status' = "ERROR"
                /\ UNCHANGED <<message, memory, on_write, raised>>
           ELSE /\ memory' = IF o = "write" THEN Stored(memory, TaskOutputTarget, data)
                             ELSE memory
                /\ on_write' = IF o = "write" THEN 1 ELSE 0
                /\ raised' = IF o \in {"write", "skip"} THEN "none" ELSE o
                /\ error' = IF o \in {"write", "skip"} THEN error ELSE <<o, "traceback">>
                /\ task_status' = IF o \in {"write", "skip"} THEN "SUCCESS" ELSE "ERROR"
                /\ UNCHANGED message
        /\ UNCHANGED <<taskvars, factvars, workvars, clientvars, histvars, graph,
                       target_lock, temporary, comparators, summary, requires,
                       run_fallback, inputs, id_branch, task_mode, available_inputs,
                       invalid, aggregate, on_read, slock, users, dry, sessvars,
                       filevars, algvars>>

\* the available inputs a task of the machine may have: a target or None
\* for each input, or a list of targets for an aggregating task
AvailableOf(name) ==
    LET T == {x \in RunTargets : TargetName(x) = name}
    IN  IF aggregate
        THEN {<<>>} \cup {<<x>> : x \in T} \cup {p \in T \X T : p[1] # p[2]}
        ELSE {None} \cup T

\* a task that safe_run has set RUNNING
InitRun ==
    /\ NoFactory
    /\ invalid = {}
    /\ aggregate \in BOOLEAN
    /\ message = None
    /\ error = None
    /\ on_read \in [RunTargets -> {"none"} \cup Excs]
    /\ slock = None
    /\ users = <<>>
    /\ dry = FALSE
    /\ requires \in {"all", "any"}
    /\ run_fallback = TRUE
    /\ inputs \in RunInputs
    /\ id_branch = <<>>
    /\ task_mode \in {"none", "overwrite", "upgrade", "test"}
    /\ available_inputs \in [DOMAIN inputs -> UNION {AvailableOf(inputs[n][1]) : n \in DOMAIN inputs}]
    /\ \A n \in DOMAIN inputs : available_inputs[n] \in AvailableOf(inputs[n][1])
    /\ \E S \in SUBSET {TaskOutputTarget} :
           memory = [t \in RunTargets \cup S |-> <<1, 1>>]
    /\ target_lock \in SUBSET {"C"}
    /\ temporary = FALSE
    /\ comparators = {}
    /\ on_write = 0
    /\ raised = "none"
    /\ summary = <<>>
    /\ last = <<>>
    /\ Ready(available_inputs)
    /\ ~(Complete /\ task_mode = "none")
    /\ task_status = "RUNNING"
    /\ NoSession
    /\ NoFile
    /\ NoAlg

NextRun ==
    \E func \in {"none"} \cup Excs, data \in {<<1, 1>>, <<2, 2>>} : TaskExecute(func, data)

SpecRun == InitRun /\ [][NextRun]_vars

\* a step of safe_run that leaves RUNNING
Executed == task_status = "RUNNING" /\ task_status' # "RUNNING"

\* the reads of input n: index i raises something other than RejectException
\* and no read before it does
FirstError(n, i) ==
    /\ i \in 1..Len(available_inputs[n])
    /\ ReadOutcome(available_inputs[n][i]) \in {"ExpectedError", "Exception"}
    /\ \A j \in 1..(i - 1) :
           ReadOutcome(available_inputs[n][j]) \in {"none", "RejectException"}

\* what reading input n raises: for an aggregating task the first error of
\* its list, or RejectException when the list is not empty and every read
\* was rejected
RaisedBy(n) ==
    IF available_inputs[n] = None THEN "none"
    ELSE IF ~aggregate THEN ReadOutcome(available_inputs[n])
    ELSE IF \E i \in 1..Len(available_inputs[n]) : FirstError(n, i)
         THEN ReadOutcome(available_inputs[n][CHOOSE i \in 1..Len(available_inputs[n]) :
                                                  FirstError(n, i)])
    ELSE IF \A i \in 1..Len(available_inputs[n]) :
                ReadOutcome(available_inputs[n][i]) = "RejectException"
         THEN "RejectException"
    ELSE "none"

\* what reading input n raises when every RejectException of a read ends
\* the task
RaisedByAny(n) ==
    IF available_inputs[n] = None THEN "none"
    ELSE IF ~aggregate THEN ReadOutcome(available_inputs[n])
    ELSE IF \E i \in 1..Len(available_inputs[n]) :
                ReadOutcome(available_inputs[n][i]) # "none"
         THEN LET k == CHOOSE i \in 1..Len(available_inputs[n]) :
                          /\ ReadOutcome(available_inputs[n][i]) # "none"
                          /\ \A j \in 1..(i - 1) :
                                 ReadOutcome(available_inputs[n][j]) = "none"
              IN  ReadOutcome(available_inputs[n][k])
    ELSE "none"

\* the status, message, error and memory that safe_run leaves when the
\* first exception of the reads and of the function is exc
EndsAs(exc) ==
    LET o == WriteOutcome(TaskOutputTarget, last'.data, task_mode)
    IN  IF exc = "RejectException"
        THEN task_status' = "REJECTED" /\ memory' = memory
        ELSE IF exc = "ExpectedError"
        THEN task_status' = "ERROR" /\ message' # None /\ error' = None /\ memory' = memory
        ELSE IF exc = "Exception"
        THEN task_status' = "ERROR" /\ error' # None /\ error'[2] = "traceback"
             /\ memory' = memory
        ELSE IF o \notin {"write", "skip"}
        THEN task_status' = "ERROR" /\ error' # None /\ error'[2] = "traceback"
        ELSE task_status' = "SUCCESS"

\* the first exception of the reads (per input, in order) and of the function
FirstExc(byInput(_)) ==
    IF \E n \in DOMAIN available_inputs : byInput(n) # "none"
    THEN byInput(CHOOSE n \in DOMAIN available_inputs :
                     byInput(n) # "none" /\ \A k \in 1..(n - 1) : byInput(k) = "none")
    ELSE last'.func

(***************************************************************************)
(* C22: a task that reached RUNNING ends REJECTED if its function or an    *)
(* input read raises RejectException, ERROR with a message and no          *)
(* traceback if it raises ExpectedError, ERROR with the traceback recorded *)
(* if it raises any other exception or if the write of the output raises,  *)
(* and SUCCESS otherwise; when the function raises nothing is written.     *)
(***************************************************************************)
C22_OutcomeOfRun ==
    [][Executed => EndsAs(FirstExc(RaisedByAny))]_vars

(***************************************************************************)
(* C22, amended: as above, except that for an aggregating task a           *)
(* RejectException of an input read is ignored as long as another read of  *)
(* the same input returns data; the task is REJECTED by its reads only     *)
(* when every read of an input is rejected.                                *)
(***************************************************************************)
C22_OutcomeOfRunAggregate ==
    [][Executed => EndsAs(FirstExc(RaisedBy))]_vars

\* an aggregating task has ended SUCCESS although one of its reads was
\* rejected, and its output was written
C22_Witness ==
    /\ aggregate
    /\ task_status = "SUCCESS"
    /\ \E n \in DOMAIN available_inputs : \E i \in 1..Len(available_inputs[n]) :
           ReadOutcome(available_inputs[n][i]) = "RejectException"
    /\ exists(TaskOutputTarget)
    /\ memory[TaskOutputTarget] = <<2, 2>>

(***************************************************************************)
(* Threads that call remove(target) and then write(target, value) with no  *)
(* mode on one storage that holds the target.  Every method of the storage *)
(* runs under `with self.lock`.                                            *)
(***************************************************************************)
NThreads == 3

User(k) == <<"user", k>>
Users == {User(k) : k \in 1..NThreads}
SharedTarget == Target("A", <<>>)
InitialValue == <<"foobar", 0>>
UserValue(i) == <<"blah", i[2]>>

\* a variant of the lock that never blocks
Acquirable(i) == TRUE

\* withlock: the reentrant lock of the storage can be taken by thread i
LockFree(i) == slock = None \/ slock = i

\* what each call of thread i has raised so far
Raise(i, exc) == [users EXCEPT ![i].raised = @ \cup {exc}]

\* remove(): `with self.lock`
RemoveEnter(i) ==
    /\ users[i].pc = "remove"
    /\ LockFree(i)
    /\ slock' = i
    /\ users' = [users EXCEPT ![i].pc = "del"]
    /\ UNCHANGED <<taskvars, factvars, workvars, clientvars, histvars, graph, storvars,
                   resvars, invalid, aggregate, message, error, on_read, dry, sessvars,
                       filevars, algvars>>

\* remove(): the lock list, `del self.memory[target]`, and the lock is
\* released; TargetDoesNotExist is caught by the thread
RemoveBody(i) ==
    LET o == RemoveOutcome(memory, SharedTarget)
    IN  /\ users[i].pc = "del"
        /\ memory' = IF o = "remove" THEN Deleted(memory, SharedTarget) ELSE memory
        /\ users' = [(IF o = "remove" THEN users ELSE Raise(i, o)) EXCEPT ![i].pc = "write"]
        /\ slock' = None
        /\ UNCHANGED <<taskvars, factvars, workvars, clientvars, histvars, graph,
                       target_lock, temporary, comparators, on_write, raised, summary,
                       last, resvars, invalid, aggregate, message, error, on_read, dry,
                       sessvars, filevars, algvars>>

\* write(): `with self.lock`
WriteEnter(i) ==
    /\ users[i].pc = "write"
    /\ LockFree(i)
    /\ slock' = i
    /\ users' = [users EXCEPT ![i].pc = "test"]
    /\ UNCHANGED <<taskvars, factvars, workvars, clientvars, histvars, graph, storvars,
                   resvars, invalid, aggregate, message, error, on_read, dry, sessvars,
                       filevars, algvars>>

\* write(): `if target in self.memory`, where it raises and releases the
\* lock; TargetAlreadyExists is caught by the thread
WriteTest(i) ==
    LET o == WriteOutcome(SharedTarget, UserValue(i), "none")
    IN  /\ users[i].pc = "test"
        /\ IF o = "write"
           THEN /\ users' = [users EXCEPT ![i].pc = "store"]
                /\ UNCHANGED slock
           ELSE /\ users' = [Raise(i, o) EXCEPT ![i].pc = "done"]
                /\ slock' = None
        /\ UNCHANGED <<taskvars, factvars, workvars, clientvars, histvars, graph, storvars,
                       resvars, invalid, aggregate, message, error, on_read, dry,
                       sessvars, filevars, algvars>>

\* write(): `self.memory[target] = data`, and the lock is released
WriteStore(i) ==
    /\ users[i].pc = "store"
    /\ memory' = Stored(memory, SharedTarget, UserValue(i))
    /\ users' = [users EXCEPT ![i].pc = "done"]
    /\ slock' = None
    /\ UNCHANGED <<taskvars, factvars, workvars, clientvars, histvars, graph,
                   target_lock, temporary, comparators, on_write, raised, summary,
                   last, resvars, invalid, aggregate, message, error, on_read, dry,
                       sessvars, filevars, algvars>>

InitThreads ==
    /\ NoFactory
    /\ NoTask
    /\ memory = [t \in {SharedTarget} |-> InitialValue]
    /\ target_lock = {}
    /\ comparators = {}
    /\ temporary = FALSE
    /\ on_write = 0
    /\ raised = "none"
    /\ summary = <<>>
    /\ last = <<>>
    /\ invalid = {}
    /\ aggregate = FALSE
    /\ message = None
    /\ error = None
    /\ on_read = <<>>
    /\ dry = FALSE
    /\ slock = None
    /\ users = [i \in Users |-> [pc |-> "remove", raised |-> {}]]
    /\ NoSession
    /\ NoFile
    /\ NoAlg

NextThreads ==
    \E i \in Users :
        \/ RemoveEnter(i)
        \/ RemoveBody(i)
        \/ WriteEnter(i)
        \/ WriteTest(i)
        \/ WriteStore(i)

SpecThreads == InitThreads /\ [][NextThreads]_vars

\* every thread has returned from its two calls
AllDone == \A i \in Users : users[i].pc = "done"

(***************************************************************************)
(* C23: the operations of a storage are atomic under its lock: for any     *)
(* interleaving of threads that each call remove(t) and then write(t, v_i) *)
(* with no mode on a storage that holds t, every call completes or raises  *)
(* TargetDoesNotExist or TargetAlreadyExists, a write stores only on a     *)
(* target that does not exist, and at the end t exists with a value v_i    *)
(* written by one of the threads, not the initial value.                   *)
(***************************************************************************)
C23_AtomicUnderLock ==
    /\ [](\A i \in Users :
              users[i].raised \subseteq {"TargetDoesNotExist", "TargetAlreadyExists"})
    /\ [](AllDone => /\ exists(SharedTarget)
                     /\ \E i \in Users : memory[SharedTarget] = UserValue(i))
    /\ [][(exists(SharedTarget)' /\ exists(SharedTarget)) =>
              memory'[SharedTarget] = memory[SharedTarget]]_vars

\* all the threads are done, one write was refused and one remove found
\* nothing
C23_Witness ==
    /\ AllDone
    /\ \E i \in Users : "TargetAlreadyExists" \in users[i].raised
    /\ \E i \in Users : "TargetDoesNotExist" \in users[i].raised
    /\ exists(SharedTarget)
    /\ memory[SharedTarget] # InitialValue

(***************************************************************************)
(* A factory that is a Factory or a DryFactory: one thread adds tasks and  *)
(* holds.  DryFactory overrides serve and hold with `pass`.                *)
(***************************************************************************)
DryOps == 3

\* a variant in which no factory is a DryFactory
NotDry == FALSE

\* factory(dry=True) makes a DryFactory
IsDry == dry

\* DryFactory.serve, at the end of add_task: nothing is done
DryServe(thr) ==
    /\ IsDry
    /\ call[thr].pc = "reset"
    /\ Return(thr)
    /\ UNCHANGED <<taskvars, factvars, datavars, wcur, wst, wpend, wupd, wsum, cops,
                   histvars>>

\* DryFactory.hold: nothing is done
DryHold(c) ==
    /\ IsDry
    /\ cpc[c] = "idle"
    /\ cops[c] > 0
    /\ cops' = [cops EXCEPT ![c] = @ - 1]
    /\ UNCHANGED <<taskvars, factvars, datavars, workvars, cpc, call, histvars>>

\* Factory.serve and Factory.hold, which a DryFactory does not inherit
FactoryServe(thr) ==
    /\ ~IsDry
    /\ (ServeReset(thr) \/ ServeCheck(thr) \/ ServeStart(thr))

FactoryHold(c) ==
    /\ ~IsDry
    /\ (HoldBegin(c) \/ HoldEnd(c) \/ HoldReturn(c))

InitDry ==
    /\ InitCommon
    /\ NoTask
    /\ memory = <<>>
    /\ target_lock = {}
    /\ temporary = FALSE
    /\ comparators = {}
    /\ on_write = 0
    /\ raised = "none"
    /\ summary = <<>>
    /\ last = <<>>
    /\ graph = NoGraph
    /\ invalid = {}
    /\ aggregate = FALSE
    /\ message = None
    /\ error = None
    /\ on_read = <<>>
    /\ slock = None
    /\ users = <<>>
    /\ dry \in BOOLEAN
    /\ store \in SUBSET InitTargets
    /\ stop_on_error = FALSE
    /\ nosession = FALSE
    /\ cbs = "none"
    /\ cops = [c \in Clients |-> IF c = Main THEN DryOps ELSE 0]
    /\ NoSession
    /\ NoFile
    /\ NoAlg

NextDry ==
    \/ \E t \in Tasks, m \in Modes : RunBegin(Main, t, m)
    \/ AddPut(Main)
    \/ DryServe(Main)
    \/ DryHold(Main)
    \/ FactoryServe(Main)
    \/ FactoryHold(Main)
    \/ WorkerNext

SpecDry == InitDry /\ [][NextDry]_vars

(***************************************************************************)
(* C24: a dry factory accepts tasks and never runs them: after any         *)
(* sequence of add_task and hold calls on a DryFactory every task still    *)
(* has status NEW, no machine function was invoked, no worker thread       *)
(* exists and the storage is never written.                                *)
(***************************************************************************)
C24_DryNeverRuns ==
    /\ [](dry => /\ \A t \in Tasks : status[t] = "NEW" /\ runs[t] = 0
                 /\ thread = None)
    /\ [][dry => store' = store]_vars

\* a dry factory has accepted two tasks and returned from its calls
C24_Witness ==
    /\ dry
    /\ Len(tasklist) = 2
    /\ Len(queue) = 2
    /\ cops[Main] = 0
    /\ cpc[Main] = "idle"
    /\ call[Main] = NoCall

(***************************************************************************)
(* Session.run with a history dictionary on a first storage, and           *)
(* Session.replay of one of its entries on an empty second storage.  The   *)
(* toolbox has one program: the metamachine of MachineA (no input, output  *)
(* "A", parameter p1) and MachineB (input "A", output "B", parameter p2),  *)
(* or one of the two machines alone.  There is one identifier.             *)
(***************************************************************************)
NParams == 3

Programs == {"prog", "MachineA", "MachineB"}
SessTarget(name) == Target(name, <<>>)
OutputOf(task) == IF task = "MachineA" THEN SessTarget("A") ELSE SessTarget("B")

\* the functions of the machines
FuncA(p1) == <<"foo", p1>>
FuncB(a, p2) == <<a, p2>>

\* solve_machines: the machines of a program, and its MetaTask serialised
Solved(prog) == IF prog = "prog" THEN {"MachineA", "MachineB"} ELSE {prog}
MetaItem(prog) == [name |-> prog, parameters |-> <<>>]

\* Task.serialize
Serialize(task, params) ==
    [name |-> task, inputs |-> <<"id1">>, output |-> "id1", parameters |-> params[task]]

\* DependencyGraph.run with no mode, followed by hold(): the output task is
\* added first and its parent only when it is neither complete nor ready;
\* `ran` are the tasks that reached RUNNING, which graph_callback records
RunGraph(T, mem, params) ==
    LET A == SessTarget("A")
        B == SessTarget("B")
        new == [t \in T |-> "NEW"]
        withA == Stored(mem, A, FuncA(params["MachineA"]))
    IN  IF "MachineB" \in T
        THEN IF B \in DOMAIN mem
             THEN [memory |-> mem, status |-> [new EXCEPT !["MachineB"] = "SKIPPED"],
                   ran |-> {}]
             ELSE IF A \in DOMAIN mem
             THEN [memory |-> Stored(mem, B, FuncB(mem[A], params["MachineB"])),
                   status |-> [new EXCEPT !["MachineB"] = "SUCCESS"],
                   ran |-> {"MachineB"}]
             ELSE IF "MachineA" \in T
             THEN [memory |-> Stored(withA, B, FuncB(withA[A], params["MachineB"])),
                   status |-> [t \in T |-> "SUCCESS"],
                   ran |-> T]
             ELSE [memory |-> mem, status |-> [new EXCEPT !["MachineB"] = "PENDING"],
                   ran |-> {}]
        ELSE IF A \in DOMAIN mem
             THEN [memory |-> mem, status |-> [new EXCEPT !["MachineA"] = "SKIPPED"],
                   ran |-> {}]
             ELSE [memory |-> withA, status |-> [new EXCEPT !["MachineA"] = "SUCCESS"],
                   ran |-> {"MachineA"}]

\* DependencyGraph.get_trace: the tasks recorded for the inputs, then the task
Trace(task, ran) ==
    IF task = "MachineB" /\ "MachineA" \in ran THEN <<"MachineA", "MachineB">>
    ELSE <<task>>

\* DependencyGraph.get_history: the metatasks and the trace, serialised
GetHistory(task, ran, params) ==
    <<MetaItem(program)>> \o
        [i \in 1..Len(Trace(task, ran)) |-> Serialize(Trace(task, ran)[i], params)]

\* Session.run(program, history=history, hold=True) on the first storage
SessionRun(params) ==
    LET r == RunGraph(Solved(program), memory, params)
        done == {t \in DOMAIN r.status : r.status[t] = "SUCCESS"}
    IN  /\ statuses = <<>>
        /\ memory' = r.memory
        /\ statuses' = [run |-> r.status, replay |-> <<>>]
        /\ history' = [k \in {TargetName(OutputOf(t)) : t \in done} |->
                          GetHistory(CHOOSE t \in done : TargetName(OutputOf(t)) = k,
                                     r.ran, params)]
        /\ last' = [op |-> "run"]
        /\ UNCHANGED <<taskvars, factvars, workvars, clientvars, histvars, graph,
                       target_lock, temporary, comparators, on_write, raised, summary,
                       resvars, invalid, aggregate, message, error, on_read, slock,
                       users, dry, program, memory2, filevars, algvars>>

\* DependencyGraph.recall: the tasks of the history, or the exception raised;
\* an item without inputs is recalled by its machine
RECURSIVE Recall(_, _, _)
Recall(items, machines, tasks) ==
    IF items = <<>> THEN [raised |-> "none", tasks |-> tasks]
    ELSE IF Head(items).name \notin machines THEN [raised |-> "KeyError", tasks |-> <<>>]
    ELSE IF "inputs" \notin DOMAIN Head(items)
    THEN IF Head(items).name = "prog"
         THEN Recall(Tail(items), machines \cup Solved("prog"), tasks)
         ELSE [raised |-> "KeyError", tasks |-> <<>>]
    ELSE Recall(Tail(items), machines, Append(tasks, Head(items)))

\* Session.replay(history[key], hold=True) on the second storage
SessionReplay(key) ==
    LET rc == Recall(history[key], {program}, <<>>)
        T == {rc.tasks[i].name : i \in 1..Len(rc.tasks)}
        params == [t \in T |->
                      (CHOOSE i \in 1..Len(rc.tasks) : rc.tasks[i].name = t) ]
        r == RunGraph(T, memory2, [t \in T |-> rc.tasks[params[t]].parameters])
    IN  /\ statuses # <<>>
        /\ last.op = "run"
        /\ key \in DOMAIN history
        /\ last' = [op |-> "replay", key |-> key]
        /\ raised' = rc.raised
        /\ memory2' = IF rc.raised = "none" THEN r.memory ELSE memory2
        /\ statuses' = [statuses EXCEPT !.replay =
                            IF rc.raised = "none" THEN r.status ELSE <<>>]
        /\ UNCHANGED <<taskvars, factvars, workvars, clientvars, histvars, graph,
                       memory, target_lock, temporary, comparators, on_write, summary,
                       resvars, invalid, aggregate, message, error, on_read, slock,
                       users, dry, program, history, filevars, algvars>>

InitReplay ==
    /\ NoFactory
    /\ NoTask
    /\ \E S \in SUBSET {SessTarget("A"), SessTarget("B")}, p \in 1..NParams :
           memory = [t \in S |-> FuncA(p)]
    /\ target_lock = {}
    /\ comparators = {}
    /\ temporary = FALSE
    /\ on_write = 0
    /\ raised = "none"
    /\ summary = <<>>
    /\ last = <<>>
    /\ invalid = {}
    /\ aggregate = FALSE
    /\ message = None
    /\ error = None
    /\ on_read = <<>>
    /\ slock = None
    /\ users = <<>>
    /\ dry = FALSE
    /\ program \in Programs
    /\ memory2 = <<>>
    /\ history = <<>>
    /\ statuses = <<>>
    /\ NoFile
    /\ NoAlg

NextReplay ==
    \/ \E p1 \in 1..NParams, p2 \in 1..NParams :
           SessionRun([t \in {"MachineA", "MachineB"} |-> IF t = "MachineA" THEN p1 ELSE p2])
    \/ \E key \in {"A", "B"} : SessionReplay(key)

SpecReplay == InitReplay /\ [][NextReplay]_vars

\* the history of a SUCCESS task has been replayed
Replayed == last # <<>> /\ last.op = "replay"

(***************************************************************************)
(* C25: replaying the serialised history of a task that ended SUCCESS on a *)
(* storage S1 against an empty storage S2, with the same machines, ends    *)
(* with the same output target existing in S2 with the same value as in    *)
(* S1.                                                                     *)
(***************************************************************************)
C25_ReplaySameOutput ==
    Replayed =>
        /\ raised = "none"
        /\ SessTarget(last.key) \in DOMAIN memory2
        /\ memory2[SessTarget(last.key)] = memory[SessTarget(last.key)]

(***************************************************************************)
(* FileDB.__setitem__ on the directory of one target.  A value is saved as *)
(* one file per part.  The process may be interrupted between any two      *)
(* steps, and the handler may raise.                                       *)
(***************************************************************************)
Files == 1..NParts

\* a directory that holds all the files of a value
DirOf(value) == [exists |-> TRUE, files |-> [f \in Files |-> value[f]]]
EmptyDir == [exists |-> TRUE, files |-> <<>>]

\* a directory without one of its files, or with one more file
WithoutFile(dir, f) == [dir EXCEPT !.files = [g \in DOMAIN dir.files \ {f} |-> dir.files[g]]]
WithFile(dir, f, part) ==
    [dir EXCEPT !.files = [g \in DOMAIN dir.files \cup {f} |->
                              IF g = f THEN part ELSE dir.files[g]]]

\* what a step on the files leaves alone
OnlyFiles ==
    UNCHANGED <<taskvars, factvars, workvars, clientvars, histvars, graph, memory,
                target_lock, temporary, comparators, on_write, summary, last, resvars,
                invalid, aggregate, message, error, on_read, slock, users, dry,
                sessvars, algvars>>

\* __setitem__ is called: `if os.path.exists(path)`
SetItemBegin(value) ==
    /\ setitem.pc = "idle"
    /\ setitem' = [pc |-> IF path.exists THEN "rmtree" ELSE "save", value |-> value,
                   old |-> path]
    /\ raised' = "none"
    /\ UNCHANGED <<path, tempdir>>
    /\ OnlyFiles

\* shutil.rmtree(path): the files are unlinked one at a time, then the
\* directory is removed
RmTree ==
    /\ setitem.pc = "rmtree"
    /\ IF DOMAIN path.files # {}
       THEN /\ \E f \in DOMAIN path.files : path' = WithoutFile(path, f)
            /\ UNCHANGED setitem
       ELSE /\ path' = NoDir
            /\ setitem' = [setitem EXCEPT !.pc = "save"]
    /\ UNCHANGED <<tempdir, raised>>
    /\ OnlyFiles

\* tempfile.TemporaryDirectory and handler.save(target, tempdir, value): the
\* handler saves the value, or raises and the temporary directory is removed
HandlerSave(ok) ==
    /\ setitem.pc = "save"
    /\ IF ok
       THEN /\ tempdir' = DirOf(setitem.value)
            /\ setitem' = [setitem EXCEPT !.pc = "copytree"]
            /\ UNCHANGED raised
       ELSE /\ tempdir' = NoDir
            /\ setitem' = [setitem EXCEPT !.pc = "idle"]
            /\ raised' = "Exception"
    /\ UNCHANGED path
    /\ OnlyFiles

\* shutil.copytree(tempdir, path): the directory is made, the files are
\* copied one at a time; then the temporary directory is removed
CopyTree ==
    /\ setitem.pc = "copytree"
    /\ IF ~path.exists
       THEN /\ path' = EmptyDir
            /\ UNCHANGED <<setitem, tempdir>>
       ELSE IF DOMAIN path.files # DOMAIN tempdir.files
       THEN /\ \E f \in DOMAIN tempdir.files \ DOMAIN path.files :
                   path' = WithFile(path, f, tempdir.files[f])
            /\ UNCHANGED <<setitem, tempdir>>
       ELSE /\ tempdir' = NoDir
            /\ setitem' = [setitem EXCEPT !.pc = "idle"]
            /\ UNCHANGED path
    /\ UNCHANGED raised
    /\ OnlyFiles

\* the process is killed in the middle of __setitem__
Interrupt ==
    /\ setitem.pc \notin {"idle", "dead"}
    /\ setitem' = [setitem EXCEPT !.pc = "dead"]
    /\ UNCHANGED <<path, tempdir, raised>>
    /\ OnlyFiles

InitFile ==
    /\ NoFactory
    /\ NoTask
    /\ memory = <<>>
    /\ target_lock = {}
    /\ comparators = {}
    /\ temporary = FALSE
    /\ on_write = 0
    /\ raised = "none"
    /\ summary = <<>>
    /\ last = <<>>
    /\ invalid = {}
    /\ aggregate = FALSE
    /\ message = None
    /\ error = None
    /\ on_read = <<>>
    /\ slock = None
    /\ users = <<>>
    /\ dry = FALSE
    /\ NoSession
    /\ NoAlg
    /\ path \in {NoDir} \cup {DirOf(v) : v \in Values}
    /\ tempdir = NoDir
    /\ setitem = [pc |-> "idle"]

NextFile ==
    \/ \E value \in Values : SetItemBegin(value)
    \/ RmTree
    \/ \E ok \in BOOLEAN : HandlerSave(ok)
    \/ CopyTree
    \/ Interrupt

SpecFile == InitFile /\ [][NextFile]_vars

\* a write has been called and has returned, raised or been interrupted
WriteOver == setitem.pc \in {"idle", "dead"} /\ "value" \in DOMAIN setitem

(***************************************************************************)
(* C26: a file-backed write is atomic with respect to failure: when the    *)
(* write has returned, been interrupted or the handler has raised, the     *)
(* directory of the target is absent, or holds the complete old value, or  *)
(* holds the complete new value, never a part of one; and the old          *)
(* directory is removed only once the new one is in place.                 *)
(***************************************************************************)
C26_AtomicFileWrite ==
    /\ [](WriteOver => \/ path = NoDir
                       \/ path = setitem.old
                       \/ path = DirOf(setitem.value))
    /\ [][(path.exists /\ path' # path) => path' = DirOf(setitem.value)]_vars

(***************************************************************************)
(* TargetConverter and TargetToPathExpr (targetpath.py).  A string is a    *)
(* sequence of characters, an identifier atom is a string, an Index or a   *)
(* Branch is a sequence of atoms (empty for None) and a Target is its      *)
(* name, its index and its branch.  The templates of a converter are       *)
(* `struct`, a sequence of fields and literal characters, and for the      *)
(* index and the branch an expression `prefix<id>[sep<id>]` with the       *)
(* string that stands for an empty identifier.  Paths are normalised as on *)
(* a POSIX system.                                                         *)
(***************************************************************************)
MaxAtoms == 2

\* the storages, the task, the graph, the session and the files are not modelled
NoMachinery ==
    /\ NoFactory
    /\ NoTask
    /\ NoStorageCall
    /\ memory = <<>>
    /\ graph = NoGraph
    /\ NoSession
    /\ NoFile
    /\ invalid = {}
    /\ aggregate = FALSE
    /\ message = None
    /\ error = None
    /\ on_read = <<>>
    /\ slock = None
    /\ users = <<>>
    /\ dry = FALSE

OnlyAlg == UNCHANGED <<taskvars, factvars, workvars, clientvars, histvars, storvars,
                       resvars, graph, invalid, aggregate, message, error, on_read,
                       slock, users, dry, sessvars, filevars>>

FieldNames == {"<index>", "<name>", "<branch>"}
Letters == {"a", "n"}
\* RE_TARGET_STRING and RE_ID_STRING: the characters of a name and of an atom
TargetChars == Letters \cup {"_"}
IdChars == Letters \cup {"_"}

PathTarget(name, index, branch) == <<name, index, branch>>

\* the groups of the three fields are kept in the order name, index, branch
FieldPos(k) == CASE k = "<name>" -> 1 [] k = "<index>" -> 2 [] k = "<branch>" -> 3
NoGroups == <<<<>>, <<>>, <<>>>>

StartsWith(s, p) == Len(s) >= Len(p) /\ SubSeq(s, 1, Len(p)) = p
Drop(s, n) == SubSeq(s, n + 1, Len(s))

\* the length of the longest prefix of s made of characters of cs
RECURSIVE Span(_, _)
Span(s, cs) == IF s # <<>> /\ Head(s) \in cs THEN 1 + Span(Tail(s), cs) ELSE 0

\* str.split and str.join
RECURSIVE PathSplit(_, _)
PathSplit(s, c) ==
    IF \A i \in 1..Len(s) : s[i] # c THEN <<s>>
    ELSE LET i == CHOOSE k \in 1..Len(s) : s[k] = c /\ \A j \in 1..(k - 1) : s[j] # c
         IN <<SubSeq(s, 1, i - 1)>> \o PathSplit(Drop(s, i), c)

RECURSIVE PathJoin(_, _)
PathJoin(comps, c) ==
    IF comps = <<>> THEN <<>>
    ELSE IF Len(comps) = 1 THEN comps[1]
    ELSE comps[1] \o <<c>> \o PathJoin(Tail(comps), c)

\* posixpath.normpath: 2 for exactly two leading slashes, 1 for any other number
InitialSlashes(pth) ==
    IF ~StartsWith(pth, <<"/">>) THEN 0
    ELSE IF StartsWith(pth, <<"/", "/">>) /\ ~StartsWith(pth, <<"/", "/", "/">>) THEN 2
    ELSE 1

RECURSIVE NormComps(_, _, _)
NormComps(comps, new_comps, slashes) ==
    IF comps = <<>> THEN new_comps
    ELSE LET comp == Head(comps)
             up == <<".", ".">>
         IN IF comp = <<>> \/ comp = <<".">>
                THEN NormComps(Tail(comps), new_comps, slashes)
            ELSE IF comp # up \/ (slashes = 0 /\ new_comps = <<>>)
                        \/ (new_comps # <<>> /\ new_comps[Len(new_comps)] = up)
                THEN NormComps(Tail(comps), Append(new_comps, comp), slashes)
            ELSE IF new_comps # <<>>
                THEN NormComps(Tail(comps), SubSeq(new_comps, 1, Len(new_comps) - 1), slashes)
            ELSE NormComps(Tail(comps), new_comps, slashes)

\* os.path.normpath
normpath(pth) ==
    IF pth = <<>> THEN <<".">>
    ELSE LET slashes == InitialSlashes(pth)
             joined == [i \in 1..slashes |-> "/"]
                           \o PathJoin(NormComps(PathSplit(pth, "/"), <<>>, slashes), "/")
         IN IF joined = <<>> THEN <<".">> ELSE joined

\* "/".join(pathlib.Path(path).parts): the root is a part of its own
PartsJoin(pth) ==
    LET slashes == InitialSlashes(pth)
        root == [i \in 1..slashes |-> "/"]
        comps == SelectSeq(PathSplit(pth, "/"), LAMBDA c : c # <<>> /\ c # <<".">>)
    IN PathJoin((IF slashes = 0 THEN <<>> ELSE <<root>>) \o comps, "/")

\* IdBase.__init__ of a Branch: duplicates are removed
RECURSIVE Dedupe(_, _)
Dedupe(values, seen) ==
    IF values = <<>> THEN <<>>
    ELSE IF Head(values) \in seen THEN Dedupe(Tail(values), seen)
    ELSE <<Head(values)>> \o Dedupe(Tail(values), seen \cup {Head(values)})

\* IdToPathExpr.idexpr: the characters of the generative part are not atom characters
IdExpr(e) == IdChars \ {e.sep}

RECURSIVE GenStr(_, _)
GenStr(sep, id) ==
    IF id = <<>> THEN <<>> ELSE <<sep>> \o Head(id) \o GenStr(sep, Tail(id))

\* IdToPathExpr.to_path
IdToPath(e, id) ==
    IF id = <<>> THEN e.noid ELSE e.prefix \o Head(id) \o GenStr(e.sep, Tail(id))

\* the generative loop of IdToPathExpr.from_path: re.search of `sep(idexpr+)`
\* in what remains, until nothing remains
RECURSIVE GenParse(_, _)
GenParse(e, remain) ==
    IF remain = <<>> THEN <<"ok", <<>>>>
    ELSE LET hits == {i \in 1..(Len(remain) - 1) :
                          remain[i] = e.sep /\ remain[i + 1] \in IdExpr(e)}
         IN IF hits = {} THEN <<"ValueError">>
            ELSE LET i == CHOOSE h \in hits : \A g \in hits : h <= g
                     n == Span(Drop(remain, i), IdExpr(e))
                     rest == GenParse(e, Drop(remain, i + n))
                 IN IF rest[1] # "ok" THEN rest
                    ELSE <<"ok", <<SubSeq(remain, i + 1, i + n)>> \o rest[2]>>

\* IdToPathExpr.from_path
IdFromPath(e, pth) ==
    IF pth = e.noid THEN <<"ok", <<>>>>
    ELSE IF ~StartsWith(pth, e.prefix) THEN <<"ValueError">>
    ELSE LET n == Span(Drop(pth, Len(e.prefix)), IdExpr(e))
             rest == GenParse(e, Drop(pth, Len(e.prefix) + n))
         IN IF n = 0 THEN <<"ValueError">>
            ELSE IF rest[1] # "ok" THEN rest
            ELSE <<"ok", <<SubSeq(pth, Len(e.prefix) + 1, Len(e.prefix) + n)>> \o rest[2]>>

\* str.replace of the three fields of `struct`
RECURSIVE Fill(_, _)
Fill(struct, m) ==
    IF struct = <<>> THEN <<>>
    ELSE (IF Head(struct) \in FieldNames THEN m[FieldPos(Head(struct))] ELSE <<Head(struct)>>)
             \o Fill(Tail(struct), m)

\* TargetToPathExpr._to_path
_to_path(c, t) ==
    IF c.name # None /\ t[1] # c.name THEN <<"ValueError">>
    ELSE IF c.default_branch # None /\ t[3] \notin {<<>>, c.default_branch}
        THEN <<"ValueError">>
    ELSE <<"ok", Fill(c.struct,
                      <<t[1], IdToPath(c.index, t[2]),
                        IdToPath(c.branch, IF c.default_branch # None THEN <<>> ELSE t[3])>>)>>

\* the group of a field matches: `prefix.+?` or the string of the empty
\* identifier; the pinned name or one or more name characters
Alt1(e, g) == StartsWith(g, e.prefix) /\ Len(g) > Len(e.prefix)
GroupOk(c, k, g) ==
    CASE k = "<index>" -> Alt1(c.index, g) \/ g = c.index.noid
      [] k = "<branch>" -> Alt1(c.branch, g) \/ g = c.branch.noid
      [] k = "<name>" -> IF c.name # None THEN g = c.name
                         ELSE g # <<>> /\ \A i \in 1..Len(g) : g[i] \in TargetChars

\* every way to read the path along `struct`, m being the groups read so far
RECURSIVE Parses(_, _, _, _)
Parses(c, struct, pth, m) ==
    IF struct = <<>> THEN (IF pth = <<>> THEN {m} ELSE {})
    ELSE LET k == Head(struct)
         IN IF k \in FieldNames
                THEN UNION {Parses(c, Tail(struct), Drop(pth, l),
                                   [m EXCEPT ![FieldPos(k)] = SubSeq(pth, 1, l)]) :
                               l \in {n \in 0..Len(pth) : GroupOk(c, k, SubSeq(pth, 1, n))}}
            ELSE IF pth # <<>> /\ Head(pth) = k
                THEN Parses(c, Tail(struct), Tail(pth), m)
            ELSE {}

\* the order in which re.match tries the groups of a field: the lazy first
\* alternative from the shortest on, then the string of the empty identifier
TryOrder(c, k, g, longest) ==
    CASE k = "<index>" -> IF Alt1(c.index, g) THEN Len(g) ELSE longest + 1
      [] k = "<branch>" -> IF Alt1(c.branch, g) THEN Len(g) ELSE longest + 1
      [] k = "<name>" -> Len(g)

TriedBefore(c, fields, m1, m2, longest) ==
    \E j \in 1..Len(fields) :
        /\ TryOrder(c, fields[j], m1[FieldPos(fields[j])], longest)
               < TryOrder(c, fields[j], m2[FieldPos(fields[j])], longest)
        /\ \A i \in 1..(j - 1) :
               TryOrder(c, fields[i], m1[FieldPos(fields[i])], longest)
                   = TryOrder(c, fields[i], m2[FieldPos(fields[i])], longest)

\* TargetToPathExpr._from_path
_from_path(c, pth) ==
    LET all == Parses(c, c.struct, pth, NoGroups)
        fields == SelectSeq(c.struct, LAMBDA k : k \in FieldNames)
    IN IF all = {} THEN <<"ValueError">>
       ELSE LET match == CHOOSE m \in all :
                             \A o \in all \ {m} : TriedBefore(c, fields, m, o, Len(pth))
                name == IF \A i \in 1..Len(c.struct) : c.struct[i] # "<name>"
                            THEN c.name ELSE match[1]
                index == IF match[2] # <<>>
                             THEN IdFromPath(c.index, match[2]) ELSE <<"ok", <<>>>>
                branch == IF c.default_branch # None THEN <<"ok", c.default_branch>>
                          ELSE IF match[3] # <<>>
                              THEN IdFromPath(c.branch, match[3])
                          ELSE <<"ok", <<>>>>
            IN IF index[1] # "ok" \/ branch[1] # "ok" THEN <<"ValueError">>
               ELSE <<"ok", PathTarget(name, index[2], Dedupe(branch[2], {}))>>

\* TargetConverter.to_path with check=True
to_path(c, t) ==
    LET pth == _to_path(c, t)
    IN IF pth[1] # "ok" THEN pth
       ELSE LET back == _from_path(c, pth[2])
            IN IF back[1] # "ok" THEN back
               ELSE IF back[2] # t THEN <<"ValueError">>
               ELSE <<"ok", normpath(pth[2])>>

\* TargetConverter.from_path with check=True
from_path(c, p) ==
    LET pth == PartsJoin(p)
        t == _from_path(c, pth)
    IN IF t[1] # "ok" THEN t
       ELSE LET again == _to_path(c, t[2])
            IN IF again[1] # "ok" THEN again
               ELSE IF again[2] # pth THEN <<"ValueError">>
               ELSE t

\* the converters: the default templates of a work directory and of a
\* target directory, with other layouts, prefixes and strings for None
Structs == { <<"<index>", "/", "<name>", "<branch>">>,
             <<"<index>", "<branch>">>,
             <<"<name>", "/", "<index>", "/", "<branch>">> }
IndexExprs == {[prefix |-> <<>>, sep |-> ".", noid |-> <<"_">>],
               [prefix |-> <<"n", "_">>, sep |-> "_", noid |-> <<"_">>],
               [prefix |-> <<>>, sep |-> ".", noid |-> <<".">>]}
BranchExprs == {[prefix |-> <<"~">>, sep |-> ".", noid |-> <<>>],
                [prefix |-> <<>>, sep |-> ".", noid |-> <<>>]}
ConvNames == {<<"n">>, <<"_">>}
Atoms == {<<"a">>, <<"_">>}
Ids == UNION {[1..k -> Atoms] : k \in 0..MaxAtoms}

\* TargetToPathExpr.__init__ raises for a struct without <name> and no pinned name
Converters ==
    {c \in [struct : Structs, index : IndexExprs, branch : BranchExprs,
            name : {None, <<"n">>}, default_branch : {None, << <<"a">> >>}] :
        c.name # None \/ \E i \in 1..Len(c.struct) : c.struct[i] = "<name>"}

\* Target.__init__: a Branch has no duplicates
ConvTargets ==
    {PathTarget(name, index, branch) : name \in ConvNames, index \in Ids,
                                       branch \in {b \in Ids : Dedupe(b, {}) = b}}

ToPath ==
    /\ conv_path = None
    /\ conv_path' = to_path(conv, conv_target)
    /\ UNCHANGED <<conv, conv_target, conv_back, id_values, id_cropped, apply_ids,
                   apply_tasks>>
    /\ OnlyAlg

FromPath ==
    /\ conv_path # None
    /\ conv_path[1] = "ok"
    /\ conv_back = None
    /\ conv_back' = from_path(conv, conv_path[2])
    /\ UNCHANGED <<conv, conv_target, conv_path, id_values, id_cropped, apply_ids,
                   apply_tasks>>
    /\ OnlyAlg

InitConv ==
    /\ NoMachinery
    /\ conv \in Converters
    /\ conv_target \in ConvTargets
    /\ conv_path = None
    /\ conv_back = None
    /\ id_values = <<>>
    /\ id_cropped = None
    /\ apply_ids = <<>>
    /\ apply_tasks = None

NextConv ==
    \/ ToPath
    \/ FromPath

SpecConv == InitConv /\ [][NextConv]_vars

(***************************************************************************)
(* C27: for every Target t and converter C for which C.to_path(t)          *)
(* succeeds, C.from_path(C.to_path(t)) returns t: the same name, the same  *)
(* index and the same branch.                                              *)
(***************************************************************************)
C27_RoundTrip ==
    conv_back # None => conv_back = <<"ok", conv_target>>

(***************************************************************************)
(* IdBase.crop (target.py).  `_values` is a sequence of atoms.  The result *)
(* of crop is <<"None">> or <<"id", values>>, an Index or a Branch with    *)
(* those values.  The values are those of an Index, which keeps            *)
(* duplicates; a Branch holds none, and a prefix of it holds none either.  *)
(***************************************************************************)
MaxCropLen == 3
MaxCrop == 4

CropAtoms == {"a", "b", "c"}
CropValues == UNION {[1..k -> CropAtoms] : k \in 0..MaxCropLen}

\* the slice `values[:stop]` of a tuple: a negative stop counts from the end
SliceTo(values, stop) ==
    LET len == Len(values)
        end == IF stop < 0 THEN MaxOf(stop + len, 0)
               ELSE IF stop > len THEN len ELSE stop
    IN SubSeq(values, 1, end)

\* IdBase.crop(n)
IdBaseCrop(values, n) ==
    IF n > Len(values) THEN <<"None">> ELSE <<"id", SliceTo(values, 0 - n)>>

Crop(n) ==
    /\ id_cropped' = <<n, IdBaseCrop(id_values, n)>>
    /\ UNCHANGED <<conv, conv_target, conv_path, conv_back, id_values, apply_ids,
                   apply_tasks>>
    /\ OnlyAlg

InitCrop ==
    /\ NoMachinery
    /\ conv = None
    /\ conv_target = None
    /\ conv_path = None
    /\ conv_back = None
    /\ id_values \in CropValues
    /\ id_cropped = None
    /\ apply_ids = <<>>
    /\ apply_tasks = None

NextCrop == \E n \in 0..MaxCrop : Crop(n)

SpecCrop == InitCrop /\ [][NextCrop]_vars

(***************************************************************************)
(* C28: for an Index or a Branch a and every n with 0 <= n <= len(a),      *)
(* a.crop(n) is a without its last n atoms, of length len(a) - n, and it   *)
(* is empty if and only if n = len(a); for n > len(a), a.crop(n) is None.  *)
(***************************************************************************)
C28_CropDropsLast ==
    id_cropped # None =>
        LET n == id_cropped[1]
            result == id_cropped[2]
            len == Len(id_values)
        IN IF n > len THEN result = <<"None">>
           ELSE /\ result = <<"id", SubSeq(id_values, 1, len - n)>>
                /\ Len(result[2]) = len - n
                /\ (result[2] = <<>>) <=> (n = len)

(***************************************************************************)
(* Machine._aggregate (machine.py).  An identifier is <<index, branch>>,   *)
(* each a sequence of atoms, empty for None.  `output_indices` is the list *)
(* handed by the caller, a single index being a list of one, and empty     *)
(* when nothing is handed; `output_branches` is <<"none">>, <<"one", b>>   *)
(* for a single branch or <<"list", l>>.  A task is its group, its input   *)
(* identifiers and its output identifier.  The groups are a Python set:    *)
(* they are gone through in any order.                                     *)
(***************************************************************************)
MaxIds == 3

AggIndices == {<<"a">>, <<"b">>}
AggBranches == {<<>>, <<"x">>, <<"y">>}
AggIdentifiers == AggIndices \X AggBranches
AggModes == {"ids", "index", "branch"}
OutputIndices == {<<>>, << <<"k">> >>, << <<"k">>, <<"l">> >>}
OutputBranches == {<<"none">>, <<"one", <<"id">>>>, <<"one", <<"x">>>>,
                   <<"list", << <<"u">> >>>>, <<"list", << <<"u">>, <<"v">> >>>>}

\* Branch.__add__: the atoms of the other branch that this one does not hold
BranchAdd(b, other) ==
    b \o SelectSeq(other, LAMBDA v : \A i \in 1..Len(b) : b[i] # v)

\* `id_groups` for each value of Machine.aggregate
IdGroups(agg, ids) ==
    CASE agg = "ids" -> {<<<<>>, <<>>>>}
      [] agg = "index" -> {<<<<>>, ids[i][2]>> : i \in 1..Len(ids)}
      [] agg = "branch" -> {<<ids[i][1], <<>>>> : i \in 1..Len(ids)}

\* a variant of `match` that lets every identifier into every group
matchAny(agg, gp, id) == TRUE

\* `match` for each value of Machine.aggregate
match(agg, gp, id) ==
    CASE agg = "ids" -> TRUE
      [] agg = "index" -> gp[2] = id[2]
      [] agg = "branch" -> gp[1] = id[1]

ZipLen(a, b) == IF Len(a) <= Len(b) THEN Len(a) ELSE Len(b)

\* Machine._aggregate, the groups being gone through in the order `groups`
_aggregate(agg, ids, groups, oi, ob) ==
    LET output_indices == IF oi = <<>> THEN [g \in 1..Len(groups) |-> groups[g][1]] ELSE oi
        output_branches ==
            CASE ob[1] = "none" -> [g \in 1..Len(groups) |-> groups[g][2]]
              [] ob[1] = "one" -> [g \in 1..Len(groups) |-> BranchAdd(groups[g][2], ob[2])]
              [] ob[1] = "list" -> ob[2]
        output_ids == [k \in 1..ZipLen(output_indices, output_branches) |->
                          <<output_indices[k], output_branches[k]>>]
    IN IF Len(groups) # Len(output_ids) THEN <<"ValueError">>
       ELSE <<"ok", [g \in 1..Len(groups) |->
                        [group |-> groups[g],
                         input_ids |-> SelectSeq(ids, LAMBDA id : match(agg, groups[g], id)),
                         output_id |-> output_ids[g]]]>>

Aggregate(agg, oi, ob) ==
    /\ apply_tasks = None
    /\ \E groups \in Orders(IdGroups(agg, apply_ids)) :
           apply_tasks' = [aggregate |-> agg, output_indices |-> oi, output_branches |-> ob,
                           tasks |-> _aggregate(agg, apply_ids, groups, oi, ob)]
    /\ UNCHANGED <<conv, conv_target, conv_path, conv_back, id_values, id_cropped,
                   apply_ids>>
    /\ OnlyAlg

InitApply ==
    /\ NoMachinery
    /\ conv = None
    /\ conv_target = None
    /\ conv_path = None
    /\ conv_back = None
    /\ id_values = <<>>
    /\ id_cropped = None
    /\ apply_ids \in UNION {[1..k -> AggIdentifiers] : k \in 0..MaxIds}
    /\ apply_tasks = None

NextApply ==
    \E agg \in AggModes, oi \in OutputIndices, ob \in OutputBranches : Aggregate(agg, oi, ob)

SpecApply == InitApply /\ [][NextApply]_vars

\* the branches of the given identifiers
InputBranches == {apply_ids[i][2] : i \in 1..Len(apply_ids)}

\* the expansion made one task per distinct branch, each with exactly the
\* identifiers of its branch and an empty output index
OnePerBranch ==
    /\ apply_tasks.tasks[1] = "ok"
    /\ LET tasks == apply_tasks.tasks[2]
       IN /\ Len(tasks) = Cardinality(InputBranches)
          /\ {tasks[k].group[2] : k \in 1..Len(tasks)} = InputBranches
          /\ \A k \in 1..Len(tasks) :
                 /\ tasks[k].input_ids
                        = SelectSeq(apply_ids, LAMBDA id : id[2] = tasks[k].group[2])
                 /\ tasks[k].output_id[1] = <<>>

ByIndex == apply_tasks # None /\ apply_tasks.aggregate = "index"

(***************************************************************************)
(* C29: for a machine with aggregate = index, expansion produces exactly   *)
(* one task per distinct branch among the input identifiers; the input     *)
(* identifiers of each task are exactly the given identifiers having that  *)
(* branch, and its output index is empty.                                  *)
(***************************************************************************)
C29_OneTaskPerBranch == ByIndex => OnePerBranch

(***************************************************************************)
(* C29, amended: the same, for an expansion whose caller hands no          *)
(* output_indices and no list of output_branches.                          *)
(***************************************************************************)
C29_OneTaskPerBranchDefault ==
    (ByIndex /\ apply_tasks.output_indices = <<>> /\ apply_tasks.output_branches[1] # "list")
        => OnePerBranch

C29_Witness ==
    /\ ByIndex
    /\ apply_tasks.output_indices = <<>>
    /\ apply_tasks.output_branches[1] = "one"
    /\ Cardinality(InputBranches) = 2
    /\ Len(apply_ids) = 3
    /\ OnePerBranch

\* the number of times a task is in a queue
Count(t, q) == Cardinality({i \in 1..Len(q) : q[i] = t})

\* the run of worker w leaves its loops: the queue is drained, no task
\* succeeded in the last pass, or the stop flag is up
RunEnds(w) == wpc[w] = "lockwait" /\ wpc'[w] \in {"callback", "crashed"}

(***************************************************************************)
(* C30: when a worker run ends (queue drained, no progress, or stop) and   *)
(* nosession is false, every task that returned PENDING in the last pass   *)
(* and every task not yet started is in the queue exactly once.            *)
(***************************************************************************)
C30_PendingStayQueued ==
    [][\A w \in Workers :
           (RunEnds(w) /\ ~nosession) =>
               \A t \in wpend[w] \cup {queue[i] : i \in 1..Len(queue)} :
                   Count(t, queue') = 1]_vars

\* the tasks of the graph that write an output no task of the graph reads
Terminal(t) == HasOutput(t) /\ TaskOutput(t) \in output_targets

\* the task o was submitted as a parent: a task run before it reads the
\* output of o and was neither complete nor ready when it was submitted
AddedAsParent(o) ==
    \E u \in graph.unmet : /\ InSeq(u, graph.run)
                           /\ HasOutput(o)
                           /\ TaskOutput(o) \in TaskInputs(u)

\* a step of the loop of run() that submits a task (Task.run)
GraphSubmits == graph.pc = "loop" /\ graph'.pc \in {"check", "invalid"}

(***************************************************************************)
(* C31: when DependencyGraph.run is called with no mode, no aggregating    *)
(* machine and some terminal output, the tasks to run are at first the     *)
(* tasks that write a terminal output; a task that writes none is          *)
(* submitted only as the parent of a task that was submitted before and    *)
(* was neither complete nor ready then; and when every terminal output     *)
(* existed at the call, no other task is submitted by the call: a task    *)
(* that was NEW and in neither the queue nor the task list at the call     *)
(* stays so.                                                               *)
(***************************************************************************)
C31_TerminalTasksFirst ==
    /\ [][/\ (GraphCalled /\ graph'.pc = "loop" /\ ~graph'.all) =>
                \A i \in 1..Len(graph'.remaining) : Terminal(graph'.remaining[i])
          /\ (GraphSubmits /\ ~graph.all) =>
                \/ Terminal(graph'.task)
                \/ AddedAsParent(graph'.task)]_vars
    /\ [](graph.pc # "idle" /\ ~graph.all /\ graph.existed =>
            /\ \A t \in Tasks : ~Terminal(t) =>
                    /\ ~InSeq(t, graph.remaining)
                    /\ ~InSeq(t, graph.run)
            /\ \A t \in graph.fresh : ~Terminal(t) =>
                    /\ status[t] = "NEW"
                    /\ ~InSeq(t, queue)
                    /\ ~InSeq(t, tasklist))

\* task 1, which writes no terminal output, is in the queue as the parent of
\* task 2, which was submitted with its input missing
C31_Witness ==
    /\ ~graph.all
    /\ graph.pc \in {"loop", "done"}
    /\ \E t \in Tasks : /\ ~Terminal(t)
                        /\ InSeq(t, graph.run)
                        /\ AddedAsParent(t)
                        /\ status[t] # "NEW"

\* every terminal output existed at the call and run() has returned: the
\* tasks that write a terminal output were run and skipped
C31_WitnessExisted ==
    /\ ~graph.all
    /\ graph.existed
    /\ graph.pc = "done"
    /\ \A t \in Tasks : Terminal(t) => status[t] = "SKIPPED"
    /\ \E t \in Tasks : ~Terminal(t) /\ status[t] = "NEW"

\* the changes of status the claim allows, as pairs <<before, after>>
StatusSteps ==
    {<<"NEW", "PENDING">>, <<"NEW", "RUNNING">>, <<"NEW", "SKIPPED">>,
     <<"PENDING", "PENDING">>, <<"PENDING", "RUNNING">>, <<"PENDING", "SKIPPED">>,
     <<"RUNNING", "SUCCESS">>, <<"RUNNING", "REJECTED">>, <<"RUNNING", "ERROR">>}

\* a step in which worker w executes update_status of safe_run
SetsStatus(w) ==
    \/ wpc[w] = "decide" /\ wpc'[w] # "decide"
    \/ wpc[w] = "run" /\ wpc'[w] # "run"

(***************************************************************************)
(* C32: every assignment of a task's status goes along NEW->PENDING,       *)
(* NEW->RUNNING, NEW->SKIPPED, PENDING->PENDING, PENDING->RUNNING,         *)
(* PENDING->SKIPPED, RUNNING->SUCCESS, RUNNING->REJECTED or                *)
(* RUNNING->ERROR, so that SUCCESS, SKIPPED, REJECTED and ERROR are never  *)
(* left.                                                                   *)
(***************************************************************************)
C32_StatusSteps ==
    [][/\ \A w \in Workers : SetsStatus(w) =>
                <<status[wcur[w]], status'[wcur[w]]>> \in StatusSteps
       /\ \A t \in Tasks : status'[t] # status[t] =>
                <<status[t], status'[t]>> \in StatusSteps]_vars

\* the statuses safe_run returns for a task that has finished
Finished == {"SKIPPED", "SUCCESS", "REJECTED", "ERROR"}

\* a step that ends the run of worker w: the factory callback is entered, or
\* an exception leaves run()
WorkerEnds(w) ==
    /\ wpc[w] \in {"saferun", "lockwait"}
    /\ wpc'[w] \in {"callback", "crashed"}

\* no task is listed twice in s
Once(s) == \A i, j \in 1..Len(s) : s[i] = s[j] => i = j

(***************************************************************************)
(* C33: when a worker run ends the factory callback is invoked, once, and  *)
(* its summary lists exactly the tasks that reached a status other than    *)
(* PENDING during the run, each once and in the order they finished: a     *)
(* task is appended to the summary when, and only when, its safe_run has   *)
(* finished it, and no task that is PENDING at exit is listed.             *)
(***************************************************************************)
C33_SummaryAtExit ==
    [][\A w \in Workers :
        /\ WorkerEnds(w) =>
              /\ wpc'[w] = "callback"
              /\ Once(wsum[w])
              /\ \A t \in Tasks : status[t] = "PENDING" => ~InSeq(t, wsum[w])
              /\ \A i \in 1..Len(wsum[w]) : status[wsum[w][i]] \in Finished
        /\ (wpc[w] = "after" /\ wpc'[w] # "after") =>
              wsum'[w] = IF status[wcur[w]] \in Finished
                         THEN Append(wsum[w], wcur[w]) ELSE wsum[w]
        /\ (wpc[w] # "after" /\ wsum'[w] # wsum[w]) =>
              wpc'[w] \in {"dead", "crashed"}
        /\ wpc[w] = "callback" => wpc'[w] \in {"callback", "fcb", "exiting"}]_vars

\* input n exists on a branch above the requested one and not on it
OnlyOnParent(n) ==
    /\ ~ExistsAt(n, id_branch)
    /\ \E b \in Prefixes(id_branch) : b # id_branch /\ ExistsAt(n, b)

(***************************************************************************)
(* C34: when no input of the task exists at exactly the requested branch,  *)
(* so that no resolved target has that branch, every target resolved for   *)
(* the identifier is dropped and the inputs count as missing; a task that  *)
(* requires all its inputs and whose inputs exist only on parent branches  *)
(* of the requested branch gets PENDING.                                   *)
(***************************************************************************)
C34_NoExactBranchDiscards ==
    [][(SafeRunStep /\ inputs # <<>>) =>
        /\ (\A n \in InputNames : ~ExistsAt(n, id_branch)) =>
               /\ \A n \in InputNames : available_inputs'[n] = None
               /\ task_status' = "PENDING"
        /\ (requires = "all" /\ \A n \in InputNames : OnlyOnParent(n)) =>
               task_status' = "PENDING"]_vars

\* a task that requires all its inputs, run with fallback on, is PENDING with
\* nothing resolved while each of its inputs exists on a parent branch
C34_Witness ==
    /\ task_status = "PENDING"
    /\ requires = "all"
    /\ run_fallback
    /\ inputs # <<>>
    /\ \A n \in InputNames : OnlyOnParent(n) /\ available_inputs[n] = None

(***************************************************************************)
(* add_task against a running worker, with the membership test of          *)
(* TaskQueue.put taken element by element.  `task in self._tasks` is       *)
(* evaluated before put takes the lock of the queue and calls Task.__eq__  *)
(* on one element after the other, while the worker's queue.get() pops the *)
(* head of the list without holding the lock of the factory.  AddPut takes *)
(* the test and the append as one step; here each comparison is a step.    *)
(***************************************************************************)
\* number of run() calls of the main thread
PutOps == 3

\* add_task: the factory lock is taken and put() starts its membership test
PutEnter(thr) ==
    /\ call[thr].pc = "put"
    /\ lock = None
    /\ lock' = thr
    /\ call' = [call EXCEPT ![thr] = [pc |-> "scan", task |-> call[thr].task, pos |-> 1]]
    /\ UNCHANGED <<taskvars, queue, tasklist, stop_flag, stop_on_error, nosession, cbs,
                   datavars, thread, nworkers, workvars, cpc, cops, histvars>>

\* `if task in self._tasks: raise Duplicate`: one comparison with the
\* element at the current position of the list as it is now; Duplicate is
\* swallowed by add_task, which goes on with serve()
PutScan(thr) ==
    LET c == call[thr]
    IN  /\ c.pc = "scan"
        /\ IF c.pos > Len(queue)
           THEN /\ call' = [call EXCEPT ![thr] = [pc |-> "append", task |-> c.task]]
                /\ lock' = lock
           ELSE IF queue[c.pos] = c.task
           THEN /\ call' = [call EXCEPT ![thr] = [pc |-> "reset", task |-> c.task]]
                /\ lock' = None
           ELSE /\ call' = [call EXCEPT ![thr].pos = @ + 1]
                /\ lock' = lock
        /\ UNCHANGED <<taskvars, queue, tasklist, stop_flag, stop_on_error, nosession, cbs,
                       datavars, thread, nworkers, workvars, cpc, cops, histvars>>

\* put() appends and sorts under the lock of the queue, add_task appends to
\* the task list and releases the lock of the factory
PutAppend(thr) ==
    /\ call[thr].pc = "append"
    /\ queue' = QueuePut(queue, call[thr].task)
    /\ tasklist' = Append(tasklist, call[thr].task)
    /\ lock' = None
    /\ call' = [call EXCEPT ![thr].pc = "reset"]
    /\ UNCHANGED <<taskvars, stop_flag, stop_on_error, nosession, cbs, datavars, thread,
                   nworkers, workvars, cpc, cops, histvars>>

\* one thread calls run() on tasks with no mode; the callbacks add no task
InitPut ==
    /\ InitCommon
    /\ NoData
    /\ store \in SUBSET InitTargets
    /\ stop_on_error = FALSE
    /\ nosession = FALSE
    /\ cbs = "none"
    /\ cops = [c \in Clients |-> IF c = Main THEN PutOps ELSE 0]

NextPut ==
    \/ \E t \in Tasks : RunBegin(Main, t, "none")
    \/ PutEnter(Main)
    \/ PutScan(Main)
    \/ PutAppend(Main)
    \/ ServeReset(Main)
    \/ ServeCheck(Main)
    \/ ServeStart(Main)
    \/ WorkerNext

SpecPut == InitPut /\ [][NextPut]_vars

\* a step in which add_task on thread thr is past the put
PutDone(thr) == call[thr].pc \in {"put", "scan", "append"} /\ call'[thr].pc = "reset"

(***************************************************************************)
(* C35: the queue of the factory never holds a task twice, whatever the    *)
(* interleaving of add_task and of the worker's get and re-enqueueing; and *)
(* an add_task whose task is in the queue when it puts leaves the queue    *)
(* and the task list as they are.                                          *)
(***************************************************************************)
C35_NoDuplicateInQueue ==
    /\ [](Once(queue))
    /\ [][\A thr \in Threads :
            (PutDone(thr) /\ InSeq(call[thr].task, queue)) =>
                queue' = queue /\ tasklist' = tasklist]_vars

(***************************************************************************)
(* Tasks that share an output target, run with no mode: tasks 1 and 2 are  *)
(* tasks of two machines with the output "B", task 3 has the output "A";   *)
(* none has an input.  Beside the tasks a client thread writes targets     *)
(* with no mode (Factory.write).  Nothing is removed.                      *)
(***************************************************************************)
ShareOutput(t) == IF t = 3 THEN Target("A", <<>>) ELSE Target("B", <<>>)

\* safe_run under the task lock: SKIPPED when the output exists and no mode
\* is set, else RUNNING (a task without input is ready)
ShareSafeRun(t) ==
    /\ status[t] = "NEW"
    /\ status' = [status EXCEPT ![t] = IF exists(ShareOutput(t)) /\ mode[t] = "none"
                                        THEN "SKIPPED" ELSE "RUNNING"]
    /\ UNCHANGED <<runs, mode, store, factvars, workvars, clientvars, histvars, datavars>>

\* safe_run past RUNNING: the function returns data, the output is written
\* with the mode of the task; an exception of write makes the status ERROR
ShareExec(t, data) ==
    LET o == WriteOutcome(ShareOutput(t), data, mode[t])
    IN  /\ status[t] = "RUNNING"
        /\ runs' = [runs EXCEPT ![t] = @ + 1]
        /\ memory' = IF o = "write" THEN Stored(memory, ShareOutput(t), data) ELSE memory
        /\ on_write' = IF o = "write" THEN 1 ELSE 0
        /\ raised' = IF o \in {"write", "skip"} THEN "none" ELSE o
        /\ last' = [op |-> "write", target |-> ShareOutput(t), data |-> data,
                    mode |-> mode[t], memory |-> memory]
        /\ status' = [status EXCEPT ![t] = IF o \in {"write", "skip"} THEN "SUCCESS"
                                            ELSE "ERROR"]
        /\ UNCHANGED <<mode, store, factvars, workvars, clientvars, histvars, graph,
                       target_lock, temporary, comparators, summary, resvars, extvars>>

InitShare ==
    /\ NoFactory
    /\ NoExt
    /\ NoTask
    /\ memory \in Memories(StorTargets)
    /\ target_lock \in SUBSET StorNames
    /\ comparators = {}
    /\ temporary = FALSE
    /\ on_write = 0
    /\ raised = "none"
    /\ summary = <<>>
    /\ last = <<>>

NextShare ==
    \/ \E t \in Tasks : ShareSafeRun(t)
    \/ \E t \in Tasks, data \in Values : ShareExec(t, data)
    \/ \E target \in StorTargets, data \in Values : StorageWrite(target, data, "none")

SpecShare == InitShare /\ [][NextShare]_vars

\* a step in which safe_run sets the status of task t while its output exists
EndsOnExisting(t) ==
    /\ exists(ShareOutput(t))
    /\ status'[t] # status[t]
    /\ status'[t] # "RUNNING"

\* no stored value changes, and a write that stores finds no value
StoredOnce ==
    /\ \A x \in DOMAIN memory : x \in DOMAIN memory' /\ memory'[x] = memory[x]
    /\ (last' # last /\ on_write' = 1) => last'.target \notin DOMAIN memory

(***************************************************************************)
(* C36 as stated: with no mode and nothing removed a stored value never    *)
(* changes and a target is written at most once; a task whose output       *)
(* exists is SKIPPED, or its write raises TargetAlreadyExists.             *)
(***************************************************************************)
C36_WrittenOnce ==
    [][/\ StoredOnce
       /\ \A t \in Tasks : EndsOnExisting(t) =>
              \/ status'[t] = "SKIPPED"
              \/ status'[t] = "ERROR" /\ raised' = "TargetAlreadyExists"]_vars

(***************************************************************************)
(* C36 with the lock list taken into account: a stored value never changes *)
(* and a target is written at most once; a task whose output exists is     *)
(* SKIPPED, or its write raises TargetIsLocked when the name of the target *)
(* is locked and TargetAlreadyExists when it is not.                       *)
(***************************************************************************)
C36_WrittenOnceOrLocked ==
    [][/\ StoredOnce
       /\ \A t \in Tasks : EndsOnExisting(t) =>
              \/ status'[t] = "SKIPPED"
              \/ /\ status'[t] = "ERROR"
                 /\ raised' = IF TargetName(ShareOutput(t)) \in target_lock
                              THEN "TargetIsLocked" ELSE "TargetAlreadyExists"]_vars

\* two tasks share an output: one has written it, the write of the other
\* has raised TargetAlreadyExists and the value is the one written first
C36_Witness ==
    \E t, u \in Tasks :
        /\ t # u
        /\ ShareOutput(t) = ShareOutput(u)
        /\ status[t] = "SUCCESS"
        /\ status[u] = "ERROR"
        /\ raised = "TargetAlreadyExists"
        /\ last.target = ShareOutput(u)
        /\ last.memory = memory
        /\ memory[ShareOutput(u)] # last.data

(***************************************************************************)
(* C37: no worker thread ends through an exception that run() does not     *)
(* catch: whatever run() and add_task calls are made, also on a task that  *)
(* is in the worker's pending set, RUNNING or finished, a worker run ends  *)
(* with every task that pended back in the queue and with the call of the  *)
(* factory callback.                                                       *)
(***************************************************************************)
C37_WorkerNeverCrashes ==
    /\ [](\A w \in Workers : wpc[w] # "crashed")
    /\ [][\A w \in Workers : WorkerEnds(w) =>
            /\ wpc'[w] = "callback"
            /\ \A t \in wpend[w] : InSeq(t, queue')]_vars

\* a step in which worker w decides to exit while the stop flag is down
ExitsUnstopped(w) == wpc[w] = "lockwait" /\ wpc'[w] = "callback" /\ ~stopping

(***************************************************************************)
(* C38 as stated: when the worker exits with no stop request (the model    *)
(* has no write outside the worker), every task that is PENDING is not     *)
(* ready with respect to the storage at exit.                              *)
(***************************************************************************)
C38_NoReadyPending ==
    [][\A w \in Workers : ExitsUnstopped(w) =>
            \A t \in Tasks : status[t] = "PENDING" => ~ready(t)]_vars

(***************************************************************************)
(* C38 for the tasks the worker holds: when the worker exits with no stop  *)
(* request, every task of its pending set, which it puts back in the       *)
(* queue, that is PENDING is not ready with respect to the storage at      *)
(* exit.                                                                   *)
(***************************************************************************)
C38_NoReadyPendingRequeued ==
    [][\A w \in Workers : ExitsUnstopped(w) =>
            \A t \in wpend[w] : status[t] = "PENDING" => ~ready(t)]_vars

\* a worker that has run a task with success is about to exit with the stop
\* flag down, and puts back a PENDING task whose input does not exist
C38_Witness ==
    \E w \in Workers :
        /\ wpc[w] = "callback"
        /\ ~stopping
        /\ wsum[w] # <<>>
        /\ \E t \in wpend[w] : status[t] = "PENDING" /\ ~ready(t) /\ InSeq(t, queue)
        /\ \E t \in Tasks : status[t] = "SUCCESS"

\* worker w is serving and has not yet left its loops on the stop flag
Unobserved(w) ==
    wpc[w] \in {"get", "saferun", "decide", "run", "tcb", "after", "chkstop", "lockwait"}

(***************************************************************************)
(* C39: a stop request made while the worker is serving is not lost: once  *)
(* the stop flag is up it stays up until the worker has tested it and      *)
(* left its loop, whatever add_task calls are made in between.             *)
(***************************************************************************)
C39_StopNeverLost ==
    [][(stop_flag /\ \E w \in Workers : Unobserved(w) /\ Unobserved(w)') => stop_flag']_vars

(***************************************************************************)
(* Automatic cleanup: a factory with auto_cleanup whose storage of the     *)
(* targets "A" and "B" is temporary.  Task 1 reads "A", task 2 reads "A"   *)
(* and "B", task 3 reads "B"; the tasks require all their inputs and write *)
(* to another storage.  One worker serves; each iteration of its inner     *)
(* loop is one step.                                                       *)
(***************************************************************************)
\* number of run() calls of the main thread
AutoOps == 4

AutoWorker == Worker(1)

AutoInputs(t) ==
    IF t = 1 THEN <<Target("A", <<>>)>>
    ELSE IF t = 2 THEN <<Target("A", <<>>), Target("B", <<>>)>>
    ELSE <<Target("B", <<>>)>>

\* Task.ready of a task that requires all its inputs
AutoReady(t) == \A i \in 1..Len(AutoInputs(t)) : exists(AutoInputs(t)[i])

\* Task.run: add_task puts the task unless it is queued, serve() starts the
\* worker when none is alive
AutoAdd(t) ==
    /\ cops[Main] > 0
    /\ lock = None
    /\ cops' = [cops EXCEPT ![Main] = @ - 1]
    /\ IF Duplicate(t)
       THEN UNCHANGED <<queue, tasklist>>
       ELSE /\ queue' = QueuePut(queue, t)
            /\ tasklist' = Append(tasklist, t)
    /\ wpc' = [wpc EXCEPT ![AutoWorker] = IF @ \in {"unborn", "dead", "crashed"}
                                           THEN "get" ELSE @]
    /\ UNCHANGED <<taskvars, stop_flag, stop_on_error, nosession, cbs, lock, thread,
                   nworkers, wcur, wst, wpend, wupd, wsum, cpc, call, histvars, datavars>>

\* one iteration of the inner loop of run(): the first task of the queue is
\* taken and run with safe_run, whose function ends with outcome r
AutoSafeRun(w, r) ==
    LET t == QueueFront(queue)
        st == IF ~AutoReady(t) THEN "PENDING" ELSE EndStatus(t, r)
    IN  /\ wpc[w] = "get"
        /\ queue # <<>>
        /\ queue' = QueueRest(queue)
        /\ IF ~Runnable(t)
           THEN /\ wpc' = [wpc EXCEPT ![w] = "crashed"]
                /\ Forget(w)
                /\ UNCHANGED <<status, runs>>
           ELSE /\ status' = [status EXCEPT ![t] = st]
                /\ runs' = [runs EXCEPT ![t] = IF st = "PENDING" THEN @ ELSE @ + 1]
                /\ wupd' = [wupd EXCEPT ![w] = Updated(@, st)]
                /\ wpend' = [wpend EXCEPT ![w] = IF st = "PENDING" THEN @ \cup {t} ELSE @]
                /\ wsum' = [wsum EXCEPT ![w] = IF st = "PENDING" THEN @ ELSE Append(@, t)]
                /\ UNCHANGED <<wpc, wcur, wst>>
        /\ UNCHANGED <<mode, store, tasklist, stop_flag, stop_on_error, nosession, cbs,
                       lock, thread, nworkers, clientvars, histvars, datavars>>

\* the tasks of the summary as cleanup reads them
AutoSummary(s) ==
    [i \in 1..Len(s) |-> [inputs |-> AutoInputs(s[i]), status |-> status[s[i]],
                          aggregate |-> FALSE]]

\* run() when the queue is empty: under the factory lock the pending tasks
\* are put back; the outer loop goes on after a success, else the factory
\* callback is called with the summary
AutoLock(w) ==
    /\ wpc[w] = "get"
    /\ queue = <<>>
    /\ lock = None
    /\ \E seq \in Orders(wpend[w]) : queue' = Requeue(queue, seq)
    /\ IF wupd[w]
       THEN /\ wpend' = [wpend EXCEPT ![w] = {}]
            /\ wupd' = [wupd EXCEPT ![w] = FALSE]
            /\ UNCHANGED <<wpc, wcur, wst, wsum, lock, summary, last>>
       ELSE /\ wpc' = [wpc EXCEPT ![w] = "callback"]
            /\ lock' = w
            /\ summary' = AutoSummary(wsum[w])
            /\ last' = <<>>
            /\ UNCHANGED <<wcur, wst, wpend, wupd, wsum>>
    /\ UNCHANGED <<taskvars, tasklist, stop_flag, stop_on_error, nosession, cbs, thread,
                   nworkers, clientvars, histvars, memory, target_lock, temporary,
                   comparators, on_write, raised, resvars, graph, extvars>>

\* Factory.callback: storage.cleanup(summary)
AutoCleanup(w) ==
    /\ wpc[w] = "callback"
    /\ StorageCleanup

\* run() returns: the lock is released and the thread ends
AutoReturn(w) ==
    /\ wpc[w] = "callback"
    /\ last # <<>>
    /\ wpc' = [wpc EXCEPT ![w] = "dead"]
    /\ Forget(w)
    /\ lock' = None
    /\ UNCHANGED <<taskvars, queue, tasklist, stop_flag, stop_on_error, nosession, cbs,
                   thread, nworkers, clientvars, histvars, datavars>>

InitAuto ==
    /\ InitCommon
    /\ store = {}
    /\ stop_on_error = FALSE
    /\ nosession = FALSE
    /\ cbs = "none"
    /\ cops = [c \in Clients |-> IF c = Main THEN AutoOps ELSE 0]
    /\ graph = NoGraph
    /\ NoExt
    /\ NoTask
    /\ \E S \in SUBSET StorTargets : memory = [t \in S |-> <<1, 1>>]
    /\ target_lock = {}
    /\ comparators = {}
    /\ temporary \in BOOLEAN
    /\ on_write = 0
    /\ raised = "none"
    /\ summary = <<>>
    /\ last = <<>>

NextAuto ==
    \/ \E t \in Tasks : AutoAdd(t)
    \/ \E r \in Outcomes : AutoSafeRun(AutoWorker, r)
    \/ AutoLock(AutoWorker)
    \/ AutoCleanup(AutoWorker)
    \/ AutoReturn(AutoWorker)

SpecAuto == InitAuto /\ [][NextAuto]_vars

\* a step that is the cleanup of the factory callback
CleansUp == last' # last /\ last' # <<>> /\ last'.op = "cleanup"

(***************************************************************************)
(* C40: the cleanup run at the exit of the worker removes from a temporary *)
(* storage no target that is an input of a task that is in the queue of    *)
(* the factory with the status NEW or PENDING.                             *)
(***************************************************************************)
C40_CleanupKeepsQueuedInputs ==
    [][CleansUp =>
        \A x \in DOMAIN memory \ DOMAIN memory' :
            ~\E t \in Tasks : /\ InSeq(t, queue)
                              /\ status[t] \in {"NEW", "PENDING"}
                              /\ InSeq(x, AutoInputs(t))]_vars

====
